---- MODULE Spec2Model ----
(***************************************************************************)
(* A model of the MiniLang front-end: the lexer (Lexical_analyzer.py), the *)
(* parser (Parser.py), the semantic analyzer (semantic_analyzer.py) and    *)
(* the quadruple generator (InterCodeGenerator.py).                        *)
(*                                                                         *)
(* The recursive tree walks are unfolded into steps: one step per          *)
(* statement of the block being visited, with a stack of the open          *)
(* constructs (ctx / gen_ctx) holding the position of the walk.  The       *)
(* program analysed is drawn statement by statement from bounded sets of   *)
(* AST nodes, so one behaviour is the analysis of one program.             *)
(*                                                                         *)
(* SemSpec is one call of analyze(), GenSpec one call of generate(), and   *)
(* TwiceSpec two calls of analyze() on one AST, the second one visiting    *)
(* the nodes that the first one visited.                                   *)
(* LexSpec is the tokenizing of one source text by Lexical_analyzer.py,    *)
(* one token per step, and ParseSpec the parsing of the tokens of one      *)
(* source text by Parser.py, one top-level declaration per step.           *)
(***************************************************************************)
EXTENDS Integers, Sequences, FiniteSets, TLC

(* ------------------------------ bounds --------------------------------- *)
MaxStmts == 3       \* statements visited per function body, processed per program
MaxDepth == 2       \* open block statements below the function body
MaxFuncs == 2       \* function declarations per program

Names == {"a", "b"}

(* ------------------------------- types --------------------------------- *)
\* Python's str "i32", None and the type dicts, all as records with a tag.
I32 == [type |-> "i32"]
NoneT == [type |-> "None"]
ReferenceType(m, inner) == [type |-> "ReferenceType", mut |-> m, inner |-> inner]
ArrayType(inner, size) == [type |-> "ArrayType", inner |-> inner, size |-> size]
TupleType(elements) == [type |-> "TupleType", elements |-> elements]
InferredTuple(elements) == [type |-> "Tuple", elements |-> elements]

(* ----------------------------- AST nodes ------------------------------- *)
NoneE == [type |-> "None"]
Literal(v) == [type |-> "Literal", value |-> v]
Identifier(n) == [type |-> "Identifier", name |-> n]
BinaryExpression(op, l, r) ==
  [type |-> "BinaryExpression", operator |-> op, left |-> l, right |-> r]
RefExpr(m, e) == [type |-> "RefExpr", mut |-> m, operand |-> e]
DerefExpr(e) == [type |-> "DerefExpr", operand |-> e]
IndexExpr(t, i) == [type |-> "IndexExpr", target |-> t, index |-> i]
\* The index of a TupleAccess: the parser stores an int ('a.0') or the
\* identifier's text ('a.x').
IntIndex(k) == [int |-> k]
StrIndex(name) == [str |-> name]
TupleAccess(t, i) == [type |-> "TupleAccess", target |-> t, index |-> i]
ArrayLiteral(es) == [type |-> "ArrayLiteral", elements |-> es]
TupleLiteral(es) == [type |-> "TupleLiteral", elements |-> es]
CallExpression(c, args) == [type |-> "CallExpression", callee |-> c, arguments |-> args]
IfExpr(c, t, e) == [type |-> "IfExpr", condition |-> c, then |-> t, else |-> e]
FunctionExprBlock(es) == [type |-> "FunctionExprBlock", elements |-> es]
LoopExpr(b) == [type |-> "LoopExpr", body |-> b]
VarDecl(m, n, t, i) ==
  [type |-> "VarDecl", mut |-> m, name |-> n, var_type |-> t, init |-> i]
Assignment(t, v) == [type |-> "Assignment", target |-> t, value |-> v]
ExprStmt(e) == [type |-> "ExprStmt", expr |-> e]
ReturnStmt(e) == [type |-> "ReturnStmt", expression |-> e]
BreakStmt(e) == [type |-> "BreakStmt", expression |-> e]
ContinueStmt == [type |-> "ContinueStmt"]
EmptyStmt == [type |-> "EmptyStmt"]

(* ------------------------ symbols and scopes --------------------------- *)
Symbol(name, type_, mut, initialized) ==
  [name |-> name, type |-> type_, mut |-> mut, initialized |-> initialized,
   borrowed_mut |-> FALSE, borrowed_immut |-> FALSE]

EmptyEnv == [n \in {} |-> NoneT]

push_env(env) == Append(env, EmptyEnv)

\* A pop_env that leaves the scope on the stack.
pop_env_kept(env) == env

pop_env(env) == SubSeq(env, 1, Len(env) - 1)

\* A declare_variable that leaves an existing binding of the name in place.
declare_variable_keep(env, name, type_, mut, initialized) ==
  [env EXCEPT ![Len(env)] = @ @@ (name :> Symbol(name, type_, mut, initialized))]

declare_variable(env, name, type_, mut, initialized) ==
  [env EXCEPT ![Len(env)] = (name :> Symbol(name, type_, mut, initialized)) @@ @]

\* Index of the innermost scope that holds name; 0 when no scope does
\* (lookup_variable then raises UndeclaredVariableError).
\* A lookup_variable that searches the scopes from the outermost one.
lookup_variable_outermost(env, name) ==
  LET hits == {k \in 1..Len(env) : name \in DOMAIN env[k]}
  IN IF hits = {} THEN 0 ELSE CHOOSE k \in hits : \A j \in hits : k <= j

lookup_variable(env, name) ==
  LET hits == {k \in 1..Len(env) : name \in DOMAIN env[k]}
  IN IF hits = {} THEN 0 ELSE CHOOSE k \in hits : \A j \in hits : j <= k

(* --------------------- results of the checking code -------------------- *)
\* err is "none" or the class of the exception raised; env is the scope
\* stack as the code leaves it.
Ok(t, env) == [err |-> "none", type |-> t, env |-> env]
Fail(kind, env) == [err |-> kind, type |-> NoneT, env |-> env]

(* ------------------------------- state --------------------------------- *)
VARIABLES
  \* SemanticAnalyzer
  ast,            \* the Program: the FunctionDecl headers, bodies drawn as visited
  env_stack,      \* self.env_stack
  loop_depth,     \* self.loop_depth
  functions,      \* self.functions
  sem_pc,         \* position of analyze(): "init", "visit", "body", "done", "failed"
  sem_err,        \* class of the exception that ended analyze(), or "none"
  decl_idx,       \* index in ast of the FunctionDecl being visited
  ctx,            \* open visit_block / check_if activations, innermost last
  nstmts,         \* statements visited in the current function body
  scopes,         \* per open block, the names declared in it (lexical scoping)
  last,           \* the AST node handled by the latest step
  undeclared_seen,\* some Identifier visited so far names no variable in scope
  run,            \* which call of analyze() on this AST: 0 the only one, 1, 2
  log,            \* the nodes the first call visited, in order
  pos,            \* index in log of the node the second call visits next
  first_err,      \* sem_err at the end of the first call
  reuse,          \* the second call is on the analyzer instance of the first
  \* QuadrupleGenerator (its self.ast is ast)
  quadruples,     \* self.quadruples
  temp_counter,   \* self.temp_counter
  label_counter,  \* self.label_counter
  loop_stack,     \* self.loop_stack
  current_function, \* self.current_function
  gen_pc,         \* position of generate(): "init", "decl", "body", "done", "raised"
  gen_idx,        \* index in ast of the declaration being processed
  gen_ctx,        \* open _process_* activations that hold a block, innermost last
  gen_n,          \* statements processed so far
  owner,          \* per quad, the index of the function it was emitted for
  gen_last,       \* the statement whose handler the latest step entered, or None
  \* Lexer and lex()
  source,         \* the argument of lex(), a sequence of characters
  lex_pos,        \* self.pos
  tokens,         \* the list lex() builds
  lex_pc,         \* position of lex(): "idle", "scan", "done", "failed"
  \* Parser (its self.tokens is tokens)
  parse_pos,      \* self.pos
  decls,          \* the list parse_program builds
  parse_pc,       \* position of parse(): "idle", "parse", "done", "failed"
  parse_err       \* class of the exception that ended parse(), or "none"

sem_vars == <<ast, env_stack, loop_depth, functions, sem_pc, sem_err, decl_idx,
              ctx, nstmts, scopes, last, undeclared_seen,
              run, log, pos, first_err, reuse>>

gen_vars == <<quadruples, temp_counter, label_counter, loop_stack,
              current_function, gen_pc, gen_idx, gen_ctx, gen_n, owner, gen_last>>

lex_vars == <<source, lex_pos, tokens, lex_pc>>

parse_vars == <<parse_pos, decls, parse_pc, parse_err>>

front_vars == <<lex_vars, parse_vars>>

vars == <<sem_vars, gen_vars, front_vars>>

(* ------------------- SemanticAnalyzer.infer_expr_type ------------------ *)
\* Sequencing of two pieces of checking code: an exception raised by the
\* first ends the whole, otherwise K goes on from the first one's result.
Bind(r, K(_)) == IF r.err # "none" THEN r ELSE K(r)

RECURSIVE infer_expr_type(_, _)
RECURSIVE infer_all(_, _, _)
RECURSIVE check_call_args(_, _, _, _)
RECURSIVE check_block_elements(_, _, _)
RECURSIVE check_var_decl(_, _)
RECURSIVE check_assignment(_, _)

\* [self.infer_expr_type(e) for e in elements], left to right; the type of
\* the result is the sequence of the types inferred.
infer_all(elements, types, env) ==
  IF elements = <<>> THEN Ok(types, env)
  ELSE Bind(infer_expr_type(Head(elements), env),
            LAMBDA r : infer_all(Tail(elements), Append(types, r.type), r.env))

\* The zip loop of the CallExpression case.
\* A check_call_args that does not look at the arguments.
check_call_args_unchecked(args, params, ret, env) == Ok(ret, env)

check_call_args(args, params, ret, env) ==
  IF args = <<>> \/ params = <<>> THEN Ok(ret, env)
  ELSE Bind(infer_expr_type(Head(args), env),
            LAMBDA r : IF r.type # Head(params).type
                         THEN Fail("TypeMismatchError", r.env)
                         ELSE check_call_args(Tail(args), Tail(params), ret, r.env))

\* One element of a block expression: the dispatch of lines 315-322 / 326-329.
check_element(elem, env) ==
  IF elem.type = "VarDecl" THEN check_var_decl(elem, env)
  ELSE IF elem.type = "Assignment" THEN check_assignment(elem, env)
  ELSE IF elem.type = "ExprStmt" THEN infer_expr_type(elem.expr, env)
  ELSE infer_expr_type(elem, env)

\* The loop over expr["elements"][:-1] of the FunctionExprBlock case, from k on.
check_block_elements(elements, k, env) ==
  IF k >= Len(elements) THEN Ok(NoneT, env)
  ELSE Bind(check_element(elements[k], env),
            LAMBDA r : check_block_elements(elements, k + 1, r.env))

\* The symbol a name resolves to, with the index of its scope (0: undeclared).
Resolve(env, name) ==
  [k |-> lookup_variable(env, name),
   sym |-> IF lookup_variable(env, name) = 0 THEN NoneT
           ELSE env[lookup_variable(env, name)][name]]

\* The RefExpr case after the operand's type is known: the borrow check on
\* the symbol found, sym, in scope k.
\* A borrow_flags whose '&mut' looks only for an earlier mutable borrow.
borrow_flags_mut_only(ref_mut, name, k, sym, result, env) ==
  IF k = 0 THEN Fail("UndeclaredVariableError", env)
  ELSE IF ref_mut /\ ~sym.mut THEN Fail("BorrowCheckError", env)
  ELSE IF ref_mut
    THEN IF sym.borrowed_mut
           THEN Fail("BorrowCheckError", env)
           ELSE Ok(result, [env EXCEPT ![k][name].borrowed_mut = TRUE])
    ELSE IF sym.borrowed_mut
           THEN Fail("BorrowCheckError", env)
           ELSE Ok(result, [env EXCEPT ![k][name].borrowed_immut = TRUE])

\* A borrow_flags that lets '&mut' borrow a symbol that is not mut.
borrow_flags_any_mut(ref_mut, name, k, sym, result, env) ==
  IF k = 0 THEN Fail("UndeclaredVariableError", env)
  ELSE IF ref_mut
    THEN IF sym.borrowed_mut \/ sym.borrowed_immut
           THEN Fail("BorrowCheckError", env)
           ELSE Ok(result, [env EXCEPT ![k][name].borrowed_mut = TRUE])
    ELSE IF sym.borrowed_mut
           THEN Fail("BorrowCheckError", env)
           ELSE Ok(result, [env EXCEPT ![k][name].borrowed_immut = TRUE])

borrow_flags(ref_mut, name, k, sym, result, env) ==
  IF k = 0 THEN Fail("UndeclaredVariableError", env)
  ELSE IF ref_mut /\ ~sym.mut THEN Fail("BorrowCheckError", env)
  ELSE IF ref_mut
    THEN IF sym.borrowed_mut \/ sym.borrowed_immut
           THEN Fail("BorrowCheckError", env)
           ELSE Ok(result, [env EXCEPT ![k][name].borrowed_mut = TRUE])
    ELSE IF sym.borrowed_mut
           THEN Fail("BorrowCheckError", env)
           ELSE Ok(result, [env EXCEPT ![k][name].borrowed_immut = TRUE])

borrow_check(expr, base_type, env) ==
  IF expr.operand.type # "Identifier"
    THEN Ok(ReferenceType(expr.mut, base_type), env)
    ELSE borrow_flags(expr.mut, expr.operand.name,
                      Resolve(env, expr.operand.name).k,
                      Resolve(env, expr.operand.name).sym,
                      ReferenceType(expr.mut, base_type), env)

\* The Identifier case on the symbol found.
\* An identifier_type that does not look at initialized.
identifier_type_any(k, sym, env) ==
  IF k = 0 THEN Fail("UndeclaredVariableError", env)
  ELSE IF sym.type = NoneT THEN Fail("TypeMismatchError", env)
  ELSE Ok(sym.type, env)

identifier_type(k, sym, env) ==
  IF k = 0 THEN Fail("UndeclaredVariableError", env)
  ELSE IF sym.type = NoneT THEN Fail("TypeMismatchError", env)
  ELSE IF ~sym.initialized THEN Fail("UninitializedVariableError", env)
  ELSE Ok(sym.type, env)

\* Index of the first BreakStmt among the elements of a LoopExpr body, 0 if none.
first_break(elements) ==
  IF \E k \in 1..Len(elements) : elements[k].type = "BreakStmt"
    THEN CHOOSE k \in 1..Len(elements) :
           /\ elements[k].type = "BreakStmt"
           /\ \A j \in 1..(k - 1) : elements[j].type # "BreakStmt"
    ELSE 0

\* A tuple index in bounds: Python raises TypeError on str >= int.
tuple_index(index, elements, env) ==
  IF "str" \in DOMAIN index THEN Fail("TypeError", env)
  ELSE IF index.int >= Len(elements) THEN Fail("SemanticError", env)
  ELSE Ok(elements[index.int + 1], env)

array_literal_type(types, env) ==
  IF Cardinality({types[i] : i \in 1..Len(types)}) > 1
    THEN Fail("TypeMismatchError", env)
  ELSE IF types = <<>> THEN Fail("IndexError", env)          \* types[0]
  ELSE Ok(ArrayType(types[1], Len(types)), env)

\* The last element of a block expression gives its type (lines 325-329).
block_value(elements, env) ==
  IF elements = <<>> THEN Fail("IndexError", env)            \* elements[-1]
  ELSE check_element(elements[Len(elements)], env)

Popped(r) == [r EXCEPT !.env = pop_env(@)]

infer_expr_type(expr, env) ==
  CASE expr.type = "None" -> Fail("TypeError", env)          \* None["type"]
    [] expr.type = "Literal" -> Ok(I32, env)
    [] expr.type = "Identifier" ->
         identifier_type(Resolve(env, expr.name).k, Resolve(env, expr.name).sym, env)
    [] expr.type = "BinaryExpression" ->
         Bind(infer_expr_type(expr.left, env), LAMBDA lhs :
         Bind(infer_expr_type(expr.right, lhs.env), LAMBDA rhs :
              IF lhs.type # rhs.type THEN Fail("TypeMismatchError", rhs.env)
                                     ELSE Ok(I32, rhs.env)))
    [] expr.type = "CallExpression" ->
         IF expr.callee \notin DOMAIN functions THEN Fail("SemanticError", env)
         ELSE IF Len(expr.arguments) # Len(functions[expr.callee].params)
           THEN Fail("SemanticError", env)
           ELSE check_call_args(expr.arguments, functions[expr.callee].params,
                                functions[expr.callee].return_type, env)
    [] expr.type = "TupleLiteral" ->
         Bind(infer_all(expr.elements, <<>>, env),
              LAMBDA r : Ok(InferredTuple(r.type), r.env))
    [] expr.type = "ArrayLiteral" ->
         Bind(infer_all(expr.elements, <<>>, env),
              LAMBDA r : array_literal_type(r.type, r.env))
    [] expr.type = "RefExpr" ->
         Bind(infer_expr_type(expr.operand, env),
              LAMBDA base : borrow_check(expr, base.type, base.env))
    [] expr.type = "DerefExpr" ->
         Bind(infer_expr_type(expr.operand, env), LAMBDA ref :
              IF ref.type.type # "ReferenceType"
                THEN Fail("TypeMismatchError", ref.env)
                ELSE Ok(ref.type.inner, ref.env))
    [] expr.type = "TupleAccess" ->
         Bind(infer_expr_type(expr.target, env), LAMBDA tup :
              IF tup.type.type # "Tuple" THEN Fail("TypeMismatchError", tup.env)
              ELSE tuple_index(expr.index, tup.type.elements, tup.env))
    [] expr.type = "IndexAccess" ->
         Bind(infer_expr_type(expr.target, env), LAMBDA arr :
              IF arr.type.type # "ArrayType" THEN Fail("TypeMismatchError", arr.env)
              ELSE Bind(infer_expr_type(expr.index, arr.env), LAMBDA idx :
                   IF idx.type # I32 THEN Fail("TypeMismatchError", idx.env)
                   ELSE IF expr.index.type = "Literal"
                           /\ expr.index.value >= arr.type.size
                     THEN Fail("SemanticError", idx.env)
                     ELSE Ok(arr.type.inner, idx.env)))
    [] expr.type = "IfExpr" ->
         Bind(infer_expr_type(expr.condition, env), LAMBDA c :
              IF c.type # I32 THEN Fail("TypeMismatchError", c.env)
              ELSE Bind(infer_expr_type(expr.then, c.env), LAMBDA then :
                   Bind(infer_expr_type(expr.else, then.env), LAMBDA else_ :
                        IF then.type # else_.type
                          THEN Fail("TypeMismatchError", else_.env)
                          ELSE Ok(then.type, else_.env))))
    [] expr.type = "LoopExpr" ->
         IF first_break(expr.body.elements) = 0 THEN Fail("SemanticError", env)
         ELSE infer_expr_type(
                expr.body.elements[first_break(expr.body.elements)].expression, env)
    [] expr.type = "FunctionExprBlock" ->
         \* try: ... finally: self.pop_env()
         Popped(Bind(check_block_elements(expr.elements, 1, push_env(env)),
                     LAMBDA lead : block_value(expr.elements, lead.env)))
    [] OTHER -> Ok(I32, env)

(* -------------------- SemanticAnalyzer.check_var_decl ------------------ *)
\* A check_var_decl that checks the initializer before it declares the name,
\* with or without an annotation.
check_var_decl_init_first(stmt, env) ==
  IF stmt.init # NoneE
    THEN Bind(infer_expr_type(stmt.init, env), LAMBDA e :
              IF stmt.var_type # NoneT /\ e.type # stmt.var_type
                THEN Fail("TypeMismatchError", e.env)
                ELSE Ok(NoneT, declare_variable(e.env, stmt.name,
                                                IF stmt.var_type # NoneT
                                                  THEN stmt.var_type ELSE e.type,
                                                stmt.mut, TRUE)))
  ELSE IF stmt.var_type # NoneT
    THEN Ok(NoneT, declare_variable(env, stmt.name, stmt.var_type, stmt.mut, FALSE))
  ELSE IF stmt.name \in DOMAIN env[Len(env)]
    THEN Ok(NoneT, declare_variable(env, stmt.name, NoneT, stmt.mut, FALSE))
    ELSE Fail("TypeMismatchError", env)

check_var_decl(stmt, env) ==
  IF stmt.var_type # NoneT
    THEN IF stmt.init # NoneE
           THEN Bind(infer_expr_type(stmt.init,
                       declare_variable(env, stmt.name, stmt.var_type, stmt.mut, TRUE)),
                     LAMBDA e : IF e.type # stmt.var_type
                                  THEN Fail("TypeMismatchError", e.env)
                                  ELSE Ok(NoneT, e.env))
           ELSE Ok(NoneT,
                   declare_variable(env, stmt.name, stmt.var_type, stmt.mut, FALSE))
  ELSE IF stmt.init # NoneE
    THEN Bind(infer_expr_type(stmt.init, env), LAMBDA e :
              Ok(NoneT, declare_variable(e.env, stmt.name, e.type, stmt.mut, TRUE)))
  ELSE IF stmt.name \in DOMAIN env[Len(env)]
    THEN Ok(NoneT, declare_variable(env, stmt.name, NoneT, stmt.mut, FALSE))
    ELSE Fail("TypeMismatchError", env)

(* ------------------- SemanticAnalyzer.check_assignment ----------------- *)
\* The mutability check of an index or tuple-field target (lines 156-159, 176-179).
check_target_mut(target, env) ==
  IF target.target.type # "Identifier" THEN Ok(NoneT, env)
  ELSE IF lookup_variable(env, target.target.name) = 0
    THEN Fail("UndeclaredVariableError", env)
  ELSE IF ~Resolve(env, target.target.name).sym.mut
    THEN Fail("ImmutableAssignmentError", env)
    ELSE Ok(NoneT, env)

\* The Identifier target, resolved to sym in scope k.
\* An assign_identifier that types the right-hand side before it looks at mut.
assign_identifier_rhs_first(name, k, sym, val, env) ==
  IF k = 0 THEN Fail("UndeclaredVariableError", env)
  ELSE Bind(infer_expr_type(val, env), LAMBDA rhs :
            IF ~sym.mut THEN Fail("ImmutableAssignmentError", rhs.env)
            ELSE IF rhs.type # sym.type THEN Fail("TypeMismatchError", rhs.env)
            ELSE Ok(NoneT, [rhs.env EXCEPT ![k][name].initialized = TRUE]))

assign_identifier(name, k, sym, val, env) ==
  IF k = 0 THEN Fail("UndeclaredVariableError", env)
  ELSE IF ~sym.mut THEN Fail("ImmutableAssignmentError", env)
  ELSE Bind(infer_expr_type(val, env), LAMBDA rhs :
            IF rhs.type # sym.type THEN Fail("TypeMismatchError", rhs.env)
            ELSE Ok(NoneT, [rhs.env EXCEPT ![k][name].initialized = TRUE]))

check_assignment(stmt, env) ==
  CASE stmt.target.type = "Identifier" ->
         assign_identifier(stmt.target.name, Resolve(env, stmt.target.name).k,
                           Resolve(env, stmt.target.name).sym, stmt.value, env)
    [] stmt.target.type = "IndexAccess" ->
         Bind(infer_expr_type(stmt.target.target, env), LAMBDA arr :
              IF arr.type.type # "ArrayType" THEN Fail("TypeMismatchError", arr.env)
              ELSE Bind(check_target_mut(stmt.target, arr.env), LAMBDA m :
                   Bind(infer_expr_type(stmt.target.index, m.env), LAMBDA idx :
                        IF idx.type # I32 THEN Fail("TypeMismatchError", idx.env)
                        ELSE Bind(infer_expr_type(stmt.value, idx.env), LAMBDA rhs :
                             IF rhs.type # arr.type.inner
                               THEN Fail("TypeMismatchError", rhs.env)
                               ELSE Ok(NoneT, rhs.env)))))
    [] stmt.target.type = "TupleAccess" ->
         Bind(infer_expr_type(stmt.target.target, env), LAMBDA tup :
              IF tup.type.type # "Tuple" THEN Fail("TypeMismatchError", tup.env)
              ELSE Bind(check_target_mut(stmt.target, tup.env), LAMBDA m :
                   Bind(tuple_index(stmt.target.index, tup.type.elements, m.env),
                        LAMBDA expected :
                        Bind(infer_expr_type(stmt.value, expected.env), LAMBDA rhs :
                             IF rhs.type # expected.type
                               THEN Fail("TypeMismatchError", rhs.env)
                               ELSE Ok(NoneT, rhs.env)))))
    [] OTHER ->
         Bind(infer_expr_type(stmt.target, env), LAMBDA tg :
              Bind(infer_expr_type(stmt.value, tg.env),
                   LAMBDA rhs : Ok(NoneT, rhs.env)))

(* -------------------- SemanticAnalyzer.check_return -------------------- *)
check_return(stmt, expected_type, env) ==
  IF expected_type = NoneT /\ stmt.expression # NoneE
    THEN Fail("ReturnTypeError", env)
  ELSE IF expected_type # NoneT /\ stmt.expression = NoneE
    THEN Fail("ReturnTypeError", env)
  ELSE IF stmt.expression # NoneE
    THEN Bind(infer_expr_type(stmt.expression, env), LAMBDA e :
              IF e.type # expected_type THEN Fail("ReturnTypeError", e.env)
                                        ELSE Ok(NoneT, e.env))
    ELSE Ok(NoneT, env)

(* --------------------------- lexical scoping --------------------------- *)
\* The child nodes of an AST node, for walks that do not depend on the checker.
Children(node) ==
  LET t == node.type IN
  CASE t = "BinaryExpression" -> <<node.left, node.right>>
    [] t \in {"RefExpr", "DerefExpr"} -> <<node.operand>>
    [] t \in {"IndexExpr", "IndexAccess"} -> <<node.target, node.index>>
    [] t = "TupleAccess" -> <<node.target>>
    [] t \in {"ArrayLiteral", "TupleLiteral", "FunctionExprBlock"} -> node.elements
    [] t = "CallExpression" -> node.arguments
    [] t = "IfExpr" -> <<node.condition, node.then, node.else>>
    [] t = "LoopExpr" -> <<node.body>>
    [] t = "VarDecl" -> <<node.init>>
    [] t = "Assignment" -> <<node.target, node.value>>
    [] t = "ExprStmt" -> <<node.expr>>
    [] t \in {"ReturnStmt", "BreakStmt"} -> <<node.expression>>
    [] t \in {"WhileStmt", "IfStmt"} -> <<node.condition>>
    [] t = "ForStmt" -> <<node.start, node.end>>
    [] OTHER -> <<>>

RECURSIVE Mentions(_)
\* The names of the Identifier expressions that occur in node.
Mentions(node) ==
  IF node.type = "Identifier" THEN {node.name}
  ELSE UNION {Mentions(Children(node)[i]) : i \in 1..Len(Children(node))}

RECURSIVE InnerDecls(_)
\* The names declared by a VarDecl inside a block expression of node.
InnerDecls(node) ==
  LET cs == Children(node)
  IN UNION {InnerDecls(cs[i]) \cup
              (IF node.type = "FunctionExprBlock" /\ cs[i].type = "VarDecl"
                 THEN {cs[i].name} ELSE {}) : i \in 1..Len(cs)}

\* The names declared in the blocks that enclose the current statement.
Visible == UNION {scopes[i] : i \in 1..Len(scopes)}

\* The names an Identifier of node refers to that no enclosing scope declares.
Undeclared(node) == Mentions(node) \ (Visible \cup InnerDecls(node))

(* ------------------------------ programs ------------------------------- *)
Param(m, n, t) == [mut |-> m, name |-> n, type |-> t]
FunctionDecl(name, params, return_type, pool) ==
  [type |-> "FunctionDecl", name |-> name, params |-> params,
   return_type |-> return_type, pool |-> pool]

Arr2 == ArrayType(I32, 2)

FnBorrow == FunctionDecl("f", <<Param(TRUE, "a", I32), Param(FALSE, "b", I32)>>,
                         NoneT, "borrow")
FnIndex == FunctionDecl("g", <<Param(TRUE, "a", Arr2), Param(FALSE, "b", I32)>>,
                        NoneT, "index")
FnScope == FunctionDecl("h", <<>>, I32, "scope")

Pair == TupleType(<<I32, I32>>)
Zeros(n) == TupleLiteral([i \in 1..n |-> Literal(0)])
FnTuple == FunctionDecl("t", <<Param(TRUE, "a", Pair), Param(FALSE, "b", I32)>>,
                        NoneT, "tuple")

\* A block expression '{ e1; .. en }' whose leading elements are statements.
BlockOf(stmt, tail) == FunctionExprBlock(<<stmt, tail>>)
Terminated(e) == FunctionExprBlock(<<ExprStmt(e)>>)
FnFlow == FunctionDecl("k", <<>>, NoneT, "flow")

FnCall == FunctionDecl("c", <<Param(FALSE, "a", I32)>>, I32, "call")

FnDeref == FunctionDecl("d", <<Param(FALSE, "a", ReferenceType(TRUE, I32)),
                               Param(FALSE, "b", ReferenceType(FALSE, I32))>>,
                        NoneT, "deref")

FnTwice == FunctionDecl("w", <<Param(TRUE, "a", I32)>>, NoneT, "twice")

Programs ==
  { <<FnBorrow, FnIndex>>, <<FnIndex, FnScope>>, <<FnScope, FnBorrow>>,
    <<FnTuple, FnBorrow>>, <<FnFlow, FnScope>>,
    <<FnCall, FnFlow>>, <<FnBorrow, FnCall>>, <<FnDeref, FnTuple>> }

\* The statements and expressions the body of a function is drawn from.
\* Calls of c(a: i32) -> i32, f(mut a: i32, b: i32) and k().
Calls ==
  {CallExpression("c", args) : args \in {<<>>, <<Literal(0)>>, <<Zeros(2)>>}}
    \cup {CallExpression("f", <<Identifier("a"), x>>) : x \in {Literal(0), Zeros(2)}}
    \cup {CallExpression("k", args) : args \in {<<>>, <<Literal(0)>>}}

Pool(tag) ==
  CASE tag = "borrow" ->
         [decls |-> {VarDecl(m, "a", I32, NoneE) : m \in BOOLEAN}
                      \cup {VarDecl(TRUE, "b", NoneT, RefExpr(m, Identifier("a")))
                              : m \in BOOLEAN}
                      \cup {VarDecl(FALSE, "a", NoneT, NoneE)},
          assigns |-> {Assignment(Identifier("a"), Literal(0))},
          exprs |-> {RefExpr(m, Identifier(n)) : m \in BOOLEAN, n \in Names}
                      \cup {Identifier("a")},
          conds |-> {Literal(0)}]
    [] tag = "index" ->
         [decls |-> {VarDecl(FALSE, "a", Arr2,
                             ArrayLiteral(<<Literal(0), Literal(0)>>)),
                     VarDecl(TRUE, "b", NoneT, IndexExpr(Identifier("a"), Literal(2))),
                     VarDecl(TRUE, "b", NoneT, IndexExpr(Identifier("b"), Literal(0))),
                     VarDecl(TRUE, "b", NoneT,
                             IndexExpr(Identifier("a"), Identifier("a")))},
          assigns |-> {Assignment(IndexExpr(Identifier("a"), Literal(0)), v)
                         : v \in {Literal(0), Identifier("a")}}
                      \cup {Assignment(Identifier(n), Literal(0)) : n \in Names}
                      \cup {Assignment(Identifier("b"), Identifier("c"))},
          exprs |-> {IndexExpr(Identifier("a"), Literal(0)),
                     BinaryExpression("+", IndexExpr(Identifier("a"), Literal(0)),
                                      Identifier("a"))},
          conds |-> {Literal(0)}]
    [] tag = "scope" ->
         [decls |-> {VarDecl(m, "a", I32, Literal(0)) : m \in BOOLEAN}
                      \cup {VarDecl(TRUE, "a", NoneT, ArrayLiteral(<<Literal(0)>>)),
                            VarDecl(FALSE, "a", I32, NoneE),
                            VarDecl(FALSE, "b", I32, Identifier("b")),
                            VarDecl(FALSE, "b", NoneT, Identifier("b"))},
          assigns |-> {Assignment(Identifier("a"), Literal(0))},
          exprs |-> {Identifier("a"),
                     LoopExpr(FunctionExprBlock(<<ExprStmt(Identifier("b")),
                                                  BreakStmt(Literal(0))>>)),
                     FunctionExprBlock(<<VarDecl(FALSE, "b", NoneT, Literal(0)),
                                         Identifier("b")>>)},
          conds |-> {Literal(0), Identifier("a")}]
    [] tag = "tuple" ->
         [decls |-> {VarDecl(TRUE, "a", Pair, Zeros(n)) : n \in 2..3}
                      \cup {VarDecl(TRUE, "a", Pair,
                                    TupleLiteral(<<Literal(0), TupleLiteral(<<>>)>>))}
                      \cup {VarDecl(m, "a", NoneT, Zeros(2)) : m \in BOOLEAN}
                      \cup {VarDecl(FALSE, "b", NoneT, TupleAccess(Identifier("a"), i))
                              : i \in {IntIndex(0), IntIndex(2), StrIndex("a")}},
          assigns |-> {Assignment(TupleAccess(Identifier("a"), IntIndex(k)), v)
                         : k \in {0, 2}, v \in {Literal(0), Zeros(2)}},
          exprs |-> {TupleAccess(Identifier("a"), IntIndex(1))},
          conds |-> {Literal(0)}]
    [] tag = "call" ->
         [decls |-> {VarDecl(FALSE, "b", NoneT, call) : call \in Calls},
          assigns |-> {Assignment(Identifier("a"), Literal(0))},
          exprs |-> Calls,
          conds |-> {Literal(0)}]
    [] tag = "deref" ->
         [decls |-> {VarDecl(TRUE, "b", NoneT, DerefExpr(Identifier("a")))},
          assigns |-> {Assignment(DerefExpr(Identifier(n)), v)
                         : n \in Names, v \in {Literal(0), Zeros(2)}},
          exprs |-> {DerefExpr(Identifier("b"))},
          conds |-> {Literal(0)}]
    [] tag = "twice" ->
         [decls |-> {VarDecl(TRUE, "b", NoneT, RefExpr(TRUE, Identifier("a")))},
          assigns |-> {Assignment(Identifier("a"), Literal(0))},
          exprs |-> {Identifier("b")},
          conds |-> {Literal(0)}]
    [] tag = "flow" ->
         [decls |-> {VarDecl(FALSE, "a", NoneT, BlockOf(stmt, Literal(0)))
                       : stmt \in {BreakStmt(NoneE), ContinueStmt,
                                   ReturnStmt(Literal(0)), ReturnStmt(NoneE)}}
                      \cup {VarDecl(FALSE, "a", I32, b)
                              : b \in {Terminated(Literal(0)),
                                       FunctionExprBlock(<<Literal(0)>>),
                                       FunctionExprBlock(<<>>)}},
          assigns |-> {Assignment(Identifier("a"), Literal(0))},
          exprs |-> {LoopExpr(FunctionExprBlock(<<BreakStmt(Literal(0))>>)),
                     Terminated(Literal(0))},
          conds |-> {Literal(0)}]

CurDecl == ast[decl_idx]
CurPool == Pool(CurDecl.pool)
expected_return_type == CurDecl.return_type

(* ----------------------- SemanticAnalyzer: steps ----------------------- *)
\* None, where a quad field or current_function holds it: no name and no
\* str() of a literal is the empty string.
None == ""

\* QuadrupleGenerator.__init__
GenConstructed ==
  /\ quadruples = <<>>
  /\ temp_counter = 0
  /\ label_counter = 0
  /\ loop_stack = <<>>
  /\ current_function = None
  /\ gen_pc = "init"
  /\ gen_idx = 0
  /\ gen_ctx = <<>>
  /\ gen_n = 0
  /\ owner = <<>>
  /\ gen_last = NoneE

\* SemanticAnalyzer.__init__
SemConstructed ==
  /\ env_stack = <<EmptyEnv>>
  /\ loop_depth = 0
  /\ functions = [n \in {} |-> NoneT]
  /\ sem_pc = "init"
  /\ sem_err = "none"
  /\ decl_idx = 0
  /\ ctx = <<>>
  /\ nstmts = 0
  /\ scopes = <<>>
  /\ last = NoneE
  /\ undeclared_seen = FALSE

\* parse() is not called.
NoParse ==
  /\ parse_pos = 0
  /\ decls = <<>>
  /\ parse_pc = "idle"
  /\ parse_err = "none"

\* No source text is involved: the AST is given.
NoSource ==
  /\ source = <<>>
  /\ lex_pos = 0
  /\ tokens = <<>>
  /\ lex_pc = "idle"
  /\ NoParse

\* analyze() is called once: nothing is recorded.
Once ==
  /\ run = 0
  /\ log = <<>>
  /\ pos = 0
  /\ first_err = "none"
  /\ reuse = FALSE
  /\ NoSource

SemInit ==
  /\ ast \in Programs
  /\ SemConstructed
  /\ GenConstructed
  /\ Once

\* A step of analyze() other than the visit of a statement.
Mark(name) == [type |-> name]

\* The bodies are drawn as they are visited; the first of two calls of
\* analyze() records what it visits and the second visits the same.
Logged(node) ==
  /\ IF run = 1 THEN log' = Append(log, node) /\ pos' = pos
     ELSE IF run = 2
       THEN pos <= Len(log) /\ log[pos] = node /\ pos' = pos + 1 /\ log' = log
     ELSE UNCHANGED <<log, pos>>
  /\ UNCHANGED <<run, first_err, reuse>>

\* analyze(), first pass: self.functions[decl["name"]] = decl, later wins.
AnalyzeCollect ==
  /\ sem_pc = "init"
  /\ functions' = [n \in {ast[i].name : i \in 1..Len(ast)} |->
                     ast[CHOOSE i \in 1..Len(ast) :
                           /\ ast[i].name = n
                           /\ \A j \in 1..Len(ast) : ast[j].name = n => j <= i]]
  /\ sem_pc' = "visit"
  /\ decl_idx' = 1
  /\ Logged(Mark("AnalyzeCollect"))
  /\ UNCHANGED <<front_vars, gen_vars, ast, env_stack, loop_depth, sem_err, ctx, nstmts, scopes, last,
                 undeclared_seen>>

RECURSIVE declare_params(_, _)
declare_params(params, env) ==
  IF params = <<>> THEN env
  ELSE declare_params(Tail(params),
         declare_variable(env, Head(params).name, Head(params).type,
                          Head(params).mut, TRUE))

\* visit_function up to the call of visit_block.
VisitFunction ==
  /\ sem_pc = "visit"
  /\ decl_idx <= Len(ast)
  /\ env_stack' = declare_params(CurDecl.params, push_env(env_stack))
  /\ ctx' = <<"fn">>
  /\ scopes' = <<{CurDecl.params[i].name : i \in 1..Len(CurDecl.params)}>>
  /\ nstmts' = 0
  /\ sem_pc' = "body"
  /\ last' = CurDecl
  /\ Logged(Mark("VisitFunction"))
  /\ UNCHANGED <<front_vars, gen_vars, ast, loop_depth, functions, sem_err, decl_idx, undeclared_seen>>

\* One iteration of the loop of visit_block has handled node with result res.
Visited(node, res) ==
  /\ last' = node
  /\ nstmts' = nstmts + 1
  /\ env_stack' = res.env
  /\ sem_err' = res.err
  /\ sem_pc' = IF res.err = "none" THEN "body" ELSE "failed"
  /\ undeclared_seen' = (undeclared_seen \/ Undeclared(node) # {})
  /\ Logged(node)
  /\ UNCHANGED <<front_vars, gen_vars, ast, functions, decl_idx>>

CanVisit == sem_pc = "body" /\ nstmts < MaxStmts
CanOpen == CanVisit /\ Len(ctx) <= MaxDepth
Top == ctx[Len(ctx)]
Declare(name) == [scopes EXCEPT ![Len(scopes)] = @ \cup {name}]

VisitEmpty ==
  /\ CanVisit
  /\ Visited(EmptyStmt, Ok(NoneT, env_stack))
  /\ UNCHANGED <<loop_depth, ctx, scopes>>

VisitReturn ==
  /\ CanVisit
  /\ \E e \in {NoneE, Literal(0)} \cup CurPool.exprs :
       Visited(ReturnStmt(e), check_return(ReturnStmt(e), expected_return_type, env_stack))
  /\ UNCHANGED <<loop_depth, ctx, scopes>>

VisitBreak ==
  /\ CanVisit
  /\ Visited(BreakStmt(NoneE),
             IF loop_depth = 0 THEN Fail("InvalidControlFlowError", env_stack)
                               ELSE Ok(NoneT, env_stack))
  /\ UNCHANGED <<loop_depth, ctx, scopes>>

VisitContinue ==
  /\ CanVisit
  /\ Visited(ContinueStmt,
             IF loop_depth = 0 THEN Fail("InvalidControlFlowError", env_stack)
                               ELSE Ok(NoneT, env_stack))
  /\ UNCHANGED <<loop_depth, ctx, scopes>>

VisitVarDecl ==
  /\ CanVisit
  /\ \E stmt \in CurPool.decls :
       /\ Visited(stmt, check_var_decl(stmt, env_stack))
       /\ scopes' = Declare(stmt.name)
  /\ UNCHANGED <<loop_depth, ctx>>

VisitAssignment ==
  /\ CanVisit
  /\ \E stmt \in CurPool.assigns : Visited(stmt, check_assignment(stmt, env_stack))
  /\ UNCHANGED <<loop_depth, ctx, scopes>>

VisitExprStmt ==
  /\ CanVisit
  /\ \E e \in CurPool.exprs : Visited(ExprStmt(e), infer_expr_type(e, env_stack))
  /\ UNCHANGED <<loop_depth, ctx, scopes>>

\* The else branch of visit_block: an element that is a bare expression.
VisitTail ==
  /\ CanVisit
  /\ \E e \in CurPool.exprs :
       Visited(e, Bind(infer_expr_type(e, env_stack), LAMBDA inferred :
                       IF expected_return_type # NoneT
                          /\ inferred.type # expected_return_type
                         THEN Fail("ReturnTypeError", inferred.env)
                         ELSE inferred))
  /\ UNCHANGED <<loop_depth, ctx, scopes>>

\* check_if up to the visit of the then block.
check_cond(cond, env) ==
  Bind(infer_expr_type(cond, env), LAMBDA c :
       IF c.type # I32 THEN Fail("TypeMismatchError", c.env) ELSE Ok(NoneT, c.env))

IfStmt(c) == [type |-> "IfStmt", condition |-> c]
WhileStmt(c) == [type |-> "WhileStmt", condition |-> c]
ForStmt(m, v, s, e) == [type |-> "ForStmt", mut |-> m, var |-> v, start |-> s, end |-> e]
LoopStmt == [type |-> "LoopStmt"]
EndBlock == [type |-> "EndBlock"]

VisitIf ==
  /\ CanOpen
  /\ \E c \in CurPool.conds :
       /\ Visited(IfStmt(c), check_cond(c, env_stack))
       /\ ctx' = IF sem_err' = "none" THEN Append(ctx, "then") ELSE ctx
       /\ scopes' = IF sem_err' = "none" THEN Append(scopes, {}) ELSE scopes
  /\ UNCHANGED loop_depth

\* check_if: the then block is done and stmt["else"] is a Block.
VisitElse ==
  /\ sem_pc = "body"
  /\ Top = "then"
  /\ ctx' = [ctx EXCEPT ![Len(ctx)] = "else"]
  /\ scopes' = [scopes EXCEPT ![Len(scopes)] = {}]
  /\ last' = EndBlock
  /\ Logged(Mark("VisitElse"))
  /\ UNCHANGED <<front_vars, gen_vars, ast, env_stack, loop_depth, functions, sem_pc, sem_err, decl_idx,
                 nstmts, undeclared_seen>>

ElseIfVisited(c, r) ==
  /\ last' = IfStmt(c)
  /\ nstmts' = nstmts + 1
  /\ env_stack' = r.env
  /\ sem_err' = r.err
  /\ sem_pc' = IF r.err = "none" THEN "body" ELSE "failed"
  /\ Logged([type |-> "ElseIf", condition |-> c])

\* check_if: the then block is done and stmt["else"] is an IfStmt.
VisitElseIf ==
  /\ CanVisit
  /\ Top = "then"
  /\ \E c \in CurPool.conds :
       /\ scopes' = [scopes EXCEPT ![Len(scopes)] = {}]
       /\ undeclared_seen' =
            (undeclared_seen
               \/ Mentions(c) \ UNION {scopes'[i] : i \in 1..Len(scopes')} # {})
       /\ ElseIfVisited(c, check_cond(c, env_stack))
  /\ UNCHANGED <<front_vars, gen_vars, ast, functions, decl_idx, loop_depth, ctx>>

\* check_if returns: the last block of the IfStmt is done.
ExitIf ==
  /\ sem_pc = "body"
  /\ Top \in {"then", "else"}
  /\ ctx' = SubSeq(ctx, 1, Len(ctx) - 1)
  /\ scopes' = SubSeq(scopes, 1, Len(scopes) - 1)
  /\ last' = EndBlock
  /\ Logged(Mark("ExitIf"))
  /\ UNCHANGED <<front_vars, gen_vars, ast, env_stack, loop_depth, functions, sem_pc, sem_err, decl_idx,
                 nstmts, undeclared_seen>>

VisitWhile ==
  /\ CanOpen
  /\ \E c \in CurPool.conds : Visited(WhileStmt(c), Ok(NoneT, env_stack))
  /\ loop_depth' = loop_depth + 1
  /\ ctx' = Append(ctx, "while")
  /\ scopes' = Append(scopes, {})

ExitWhile ==
  /\ sem_pc = "body"
  /\ Top = "while"
  /\ loop_depth' = loop_depth - 1
  /\ ctx' = SubSeq(ctx, 1, Len(ctx) - 1)
  /\ scopes' = SubSeq(scopes, 1, Len(scopes) - 1)
  /\ last' = EndBlock
  /\ Logged(Mark("ExitWhile"))
  /\ UNCHANGED <<front_vars, gen_vars, ast, env_stack, functions, sem_pc, sem_err, decl_idx, nstmts,
                 undeclared_seen>>

VisitFor ==
  /\ CanOpen
  /\ \E m \in BOOLEAN, s \in CurPool.conds :
       Visited(ForStmt(m, "b", s, Literal(2)),
               Ok(NoneT, declare_variable(push_env(env_stack), "b", I32, m, TRUE)))
  /\ loop_depth' = loop_depth + 1
  /\ ctx' = Append(ctx, "for")
  /\ scopes' = Append(scopes, {"b"})

ExitFor ==
  /\ sem_pc = "body"
  /\ Top = "for"
  /\ env_stack' = pop_env(env_stack)
  /\ loop_depth' = loop_depth - 1
  /\ ctx' = SubSeq(ctx, 1, Len(ctx) - 1)
  /\ scopes' = SubSeq(scopes, 1, Len(scopes) - 1)
  /\ last' = EndBlock
  /\ Logged(Mark("ExitFor"))
  /\ UNCHANGED <<front_vars, gen_vars, ast, functions, sem_pc, sem_err, decl_idx, nstmts, undeclared_seen>>

VisitLoop ==
  /\ CanOpen
  /\ Visited(LoopStmt, Ok(NoneT, env_stack))
  /\ loop_depth' = loop_depth + 1
  /\ ctx' = Append(ctx, "loop")
  /\ scopes' = Append(scopes, {})

ExitLoop ==
  /\ sem_pc = "body"
  /\ Top = "loop"
  /\ loop_depth' = loop_depth - 1
  /\ ctx' = SubSeq(ctx, 1, Len(ctx) - 1)
  /\ scopes' = SubSeq(scopes, 1, Len(scopes) - 1)
  /\ last' = EndBlock
  /\ Logged(Mark("ExitLoop"))
  /\ UNCHANGED <<front_vars, gen_vars, ast, env_stack, functions, sem_pc, sem_err, decl_idx, nstmts,
                 undeclared_seen>>

\* visit_function after visit_block returns.
EndFunction ==
  /\ sem_pc = "body"
  /\ ctx = <<"fn">>
  /\ env_stack' = pop_env(env_stack)
  /\ ctx' = <<>>
  /\ scopes' = <<>>
  /\ decl_idx' = decl_idx + 1
  /\ sem_pc' = "visit"
  /\ last' = EndBlock
  /\ Logged(Mark("EndFunction"))
  /\ UNCHANGED <<front_vars, gen_vars, ast, loop_depth, functions, sem_err, nstmts, undeclared_seen>>

AnalyzeDone ==
  /\ sem_pc = "visit"
  /\ decl_idx > Len(ast)
  /\ sem_pc' = "done"
  /\ Logged(Mark("AnalyzeDone"))
  /\ UNCHANGED <<front_vars, gen_vars, ast, env_stack, loop_depth, functions, sem_err, decl_idx, ctx,
                 nstmts, scopes, last, undeclared_seen>>

SemNext ==
  \/ AnalyzeCollect \/ VisitFunction \/ EndFunction \/ AnalyzeDone
  \/ VisitEmpty \/ VisitReturn \/ VisitBreak \/ VisitContinue
  \/ VisitVarDecl \/ VisitAssignment \/ VisitExprStmt \/ VisitTail
  \/ VisitIf \/ VisitElse \/ VisitElseIf \/ ExitIf
  \/ VisitWhile \/ ExitWhile \/ VisitFor \/ ExitFor \/ VisitLoop \/ ExitLoop

SemSpec == SemInit /\ [][SemNext]_sem_vars

(* ------------------------- analyze(), twice ---------------------------- *)
TwicePrograms == {<<FnTwice>>}

TwiceInit ==
  /\ ast \in TwicePrograms
  /\ SemConstructed
  /\ GenConstructed
  /\ run = 1
  /\ log = <<>>
  /\ pos = 0
  /\ first_err = "none"
  /\ reuse = FALSE
  /\ NoSource

\* The first call has returned or raised.
Ended == sem_pc \in {"done", "failed"}

\* The second call starts: the exception and the call stack of the first
\* are gone, what the first call visited is visited again.
Restarted ==
  /\ run = 1
  /\ Ended
  /\ run' = 2
  /\ pos' = 1
  /\ first_err' = sem_err
  /\ sem_pc' = "init"
  /\ sem_err' = "none"
  /\ decl_idx' = 0
  /\ ctx' = <<>>
  /\ nstmts' = 0
  /\ scopes' = <<>>
  /\ last' = NoneE
  /\ undeclared_seen' = FALSE
  /\ UNCHANGED <<front_vars, gen_vars, ast, log>>

\* analyze() again on the same SemanticAnalyzer: analyze() resets nothing.
AnalyzeAgain ==
  /\ Restarted
  /\ reuse' = TRUE
  /\ UNCHANGED <<env_stack, loop_depth, functions>>

\* analyze() on a new SemanticAnalyzer(ast).
AnalyzeFresh ==
  /\ Restarted
  /\ reuse' = FALSE
  /\ env_stack' = <<EmptyEnv>>
  /\ loop_depth' = 0
  /\ functions' = [n \in {} |-> NoneT]

TwiceNext == SemNext \/ AnalyzeAgain \/ AnalyzeFresh

TwiceSpec == TwiceInit /\ [][TwiceNext]_sem_vars

\* The second call has visited all that the first one visited.
Replayed == run = 2 /\ pos > Len(log)

\* C20: two calls of analyze() on the same AST, on two analyzers or on the
\* same one, end alike: both return, or both raise the same kind of error
\* at the same node, whatever scopes, loop_depth and borrow flags the first
\* call left behind.
C20_SameOutcome ==
  /\ Replayed => (Ended /\ sem_err = first_err)
  /\ (run = 2 /\ Ended) => Replayed

\* The second call, on an analyzer whose first call failed inside a loop and
\* left its scopes and loop_depth behind, has failed as the first did.
C20_Witness ==
  /\ Replayed
  /\ reuse
  /\ sem_pc = "failed"
  /\ loop_depth > Len(ctx)
  /\ Len(env_stack) > Len(scopes) + 1

(* ======================= properties: the analyzer ====================== *)
\* The step taken visits one statement of a block.
VisitStep == sem_pc = "body" /\ nstmts' = nstmts + 1

\* The RefExpr that a statement evaluates against the scopes as they are
\* before it: '&x;', a bare '&x', or 'let y = &x;'.
RefOf(node) ==
  IF node.type = "RefExpr" THEN node
  ELSE IF node.type = "ExprStmt" /\ node.expr.type = "RefExpr" THEN node.expr
  ELSE IF node.type = "VarDecl" /\ node.var_type = NoneT /\ node.init.type = "RefExpr"
    THEN node.init
  ELSE NoneE

IsIdRef(node) == RefOf(node) # NoneE /\ RefOf(node).operand.type = "Identifier"

\* The symbol the operand of that RefExpr resolves to.
RefSym(node) == Resolve(env_stack, RefOf(node).operand.name)

NoDoubleBorrow(env) ==
  \A k \in 1..Len(env) : \A n \in DOMAIN env[k] :
    ~(env[k][n].borrowed_mut /\ env[k][n].borrowed_immut)

Conflicts(ref, sym) ==
  IF ref.mut THEN sym.borrowed_mut \/ sym.borrowed_immut ELSE sym.borrowed_mut

\* C3: no symbol is ever borrowed both mutably and immutably, and a RefExpr
\* on a symbol whose borrows conflict with it (a second '&mut', an '&mut' of
\* an immutably borrowed symbol, an '&' of a mutably borrowed one) raises
\* BorrowCheckError and leaves every flag as it was.
C3_BorrowExclusive ==
  [][/\ NoDoubleBorrow(env_stack')
     /\ (VisitStep /\ IsIdRef(last') /\ RefSym(last').k # 0
           /\ Conflicts(RefOf(last'), RefSym(last').sym))
          => (sem_err' = "BorrowCheckError" /\ env_stack' = env_stack)]_sem_vars

\* C3 witness: a second '&mut a' has just been refused on a symbol that is
\* mutably borrowed.
C3_Witness ==
  /\ sem_err = "BorrowCheckError"
  /\ IsIdRef(last) /\ RefOf(last).mut
  /\ RefSym(last).k # 0 /\ RefSym(last).sym.borrowed_mut

\* The outcome the borrow rules give a RefExpr on symbol sym.
BorrowRule(ref, sym, err, after) ==
  IF ref.mut
    THEN (~sym.mut \/ sym.borrowed_mut \/ sym.borrowed_immut)
           => err = "BorrowCheckError"
    ELSE /\ sym.borrowed_mut => err = "BorrowCheckError"
         /\ ~sym.borrowed_mut => (err = "none" /\ after.borrowed_immut)

\* The symbol that RefSym(node) has become in the next state.
RefSymAfter(node) == env_stack'[RefSym(node).k][RefOf(node).operand.name]

\* C4 as stated: for every RefExpr on a declared identifier x, '&mut x' fails
\* with BorrowCheckError when x is not mut or is borrowed, '&x' fails with
\* BorrowCheckError when x is mutably borrowed, and is accepted otherwise.
C4_AsStated ==
  [][(VisitStep /\ IsIdRef(last') /\ RefSym(last').k # 0)
       => BorrowRule(RefOf(last'), RefSym(last').sym, sem_err',
                     RefSymAfter(last'))]_sem_vars

\* C4 amended: the same, for an x that is initialized and of known type (the
\* operand is type-checked first, and an x that is not fails there).
C4_BorrowRules ==
  [][(VisitStep /\ IsIdRef(last') /\ RefSym(last').k # 0
        /\ RefSym(last').sym.initialized /\ RefSym(last').sym.type # NoneT)
       => BorrowRule(RefOf(last'), RefSym(last').sym, sem_err',
                     RefSymAfter(last'))]_sem_vars

\* C4 witness: '&mut a' has just been refused because a is immutably borrowed.
C4_Witness ==
  /\ sem_err = "BorrowCheckError"
  /\ IsIdRef(last) /\ RefOf(last).mut
  /\ RefSym(last).k # 0 /\ RefSym(last).sym.mut
  /\ RefSym(last).sym.borrowed_immut

\* The Identifier a statement reads as a whole: 'x;' or a bare 'x'.
ReadOf(node) ==
  IF node.type = "Identifier" THEN node
  ELSE IF node.type = "ExprStmt" /\ node.expr.type = "Identifier" THEN node.expr
  ELSE NoneE

\* C5: block-statement bodies have their own scope, so a reference to a name
\* that no enclosing block declares (such as one declared only inside an
\* earlier if/while/loop body) fails as undeclared.
C5_BlockScoped ==
  [][(VisitStep /\ ReadOf(last') # NoneE /\ ReadOf(last').name \notin Visible)
       => sem_err' = "UndeclaredVariableError"]_sem_vars

\* The binding that a VarDecl makes, given the type of its initializer.
NewBinding(stmt, init_type) ==
  Symbol(stmt.name,
         IF stmt.var_type # NoneT THEN stmt.var_type
         ELSE IF stmt.init # NoneE THEN init_type ELSE NoneT,
         stmt.mut, stmt.init # NoneE)

RECURSIVE Borrows(_, _)
\* node holds a RefExpr whose operand is the identifier name.
Borrows(node, name) ==
  \/ node.type = "RefExpr" /\ node.operand = Identifier(name)
  \/ \E i \in 1..Len(Children(node)) : Borrows(Children(node)[i], name)

\* C6: a successful VarDecl of a name that the current scope already holds
\* replaces the binding: type, mut and initialized are the new declaration's,
\* the borrow flags are clear (unless its own initializer borrows the name),
\* and the name resolves to this binding from then on.
C6_Shadowing ==
  [][(VisitStep /\ last'.type = "VarDecl" /\ sem_err' = "none"
        /\ last'.name \in DOMAIN env_stack[Len(env_stack)])
       => /\ lookup_variable(env_stack', last'.name) = Len(env_stack')
          /\ Len(env_stack') = Len(env_stack)
          /\ LET new == env_stack'[Len(env_stack')][last'.name]
                 made == NewBinding(last', infer_expr_type(last'.init, env_stack).type)
             IN /\ new.type = made.type
                /\ new.mut = made.mut
                /\ new.initialized = made.initialized
                /\ ~Borrows(last'.init, last'.name)
                     => (~new.borrowed_mut /\ ~new.borrowed_immut)]_sem_vars

\* C6 witness: 'let a;' has succeeded, which it does only as a re-declaration,
\* and a is now of unknown type and uninitialized.
C6_Witness ==
  /\ sem_pc = "body" /\ sem_err = "none"
  /\ last = VarDecl(FALSE, "a", NoneT, NoneE)
  /\ env_stack[Len(env_stack)]["a"] = Symbol("a", NoneT, FALSE, FALSE)

\* C7: analyze() fails whenever some Identifier in the program names a
\* variable that no enclosing scope declares.
C7_UndeclaredRejected == sem_pc = "done" => ~undeclared_seen

IndexAssign(node) ==
  /\ node.type = "Assignment"
  /\ node.target.type = "IndexExpr"
  /\ node.target.target.type = "Identifier"
  /\ Resolve(env_stack, node.target.target.name).k # 0
  /\ Resolve(env_stack, node.target.target.name).sym.type.type = "ArrayType"

\* C9: an assignment to x[i] is refused with ImmutableAssignmentError when
\* the array x is not mut, and is refused when the type of the right-hand
\* side is not the element type of x.
C9_IndexAssignment ==
  [][(VisitStep /\ IndexAssign(last'))
       => LET arr == Resolve(env_stack, last'.target.target.name).sym
              rhs == infer_expr_type(last'.value, env_stack)
          IN /\ ~arr.mut => sem_err' = "ImmutableAssignmentError"
             /\ (arr.mut /\ rhs.err = "none" /\ rhs.type # arr.type.inner)
                  => sem_err' # "none"]_sem_vars

\* The IndexExpr that 'let y = x[i];' evaluates, x an identifier that can be read.
IndexRead(node) ==
  /\ node.type = "VarDecl" /\ node.var_type = NoneT
  /\ node.init.type = "IndexExpr"
  /\ node.init.target.type = "Identifier"
  /\ infer_expr_type(node.init.target, env_stack).err = "none"
  /\ infer_expr_type(node.init.index, env_stack).err = "none"

\* C10: x[i] is refused when x is no array, when i is not an i32, or when i
\* is a literal not below the declared size; otherwise its type is the
\* element type of x.
C10_IndexChecked ==
  [][(VisitStep /\ IndexRead(last'))
       => LET x == infer_expr_type(last'.init.target, env_stack).type
              i == infer_expr_type(last'.init.index, env_stack).type
              bad == \/ x.type # "ArrayType"
                     \/ i # I32
                     \/ (last'.init.index.type = "Literal"
                           /\ last'.init.index.value >= x.size)
          IN IF bad THEN sem_err' # "none"
             ELSE /\ sem_err' = "none"
                  /\ env_stack'[Len(env_stack')][last'.name].type = x.inner]_sem_vars

RECURSIVE Structural(_)
\* A type with the origin of its tuple types forgotten: the type inferred
\* for a tuple literal and the tuple type of an annotation read alike.
Structural(t) ==
  IF t.type \in {"Tuple", "TupleType"}
    THEN TupleType([i \in 1..Len(t.elements) |-> Structural(t.elements[i])])
  ELSE IF t.type = "ReferenceType" THEN ReferenceType(t.mut, Structural(t.inner))
  ELSE IF t.type = "ArrayType" THEN ArrayType(Structural(t.inner), t.size)
  ELSE t

\* The statement is 'let a: (T1, .., Tn) = (e1, .., em);' with every ei typed.
TupleDecl(node) ==
  /\ node.type = "VarDecl"
  /\ node.var_type.type = "TupleType"
  /\ node.init.type = "TupleLiteral"
  /\ infer_expr_type(node.init, env_stack).err = "none"

\* C11: a tuple literal declared with a tuple type annotation is accepted
\* when the element types of the literal are, in number and one by one,
\* those of the annotation, and is refused with TypeMismatchError otherwise.
C11_TupleStructural ==
  [][(VisitStep /\ TupleDecl(last'))
       => IF Structural(infer_expr_type(last'.init, env_stack).type)
               = Structural(last'.var_type)
            THEN sem_err' = "none"
            ELSE sem_err' = "TypeMismatchError"]_sem_vars

\* The TupleAccess 'x.k' on an identifier x that can be read and whose
\* type is a tuple type of more than k elements.
TupleField(acc) ==
  /\ acc.type = "TupleAccess"
  /\ acc.target.type = "Identifier"
  /\ "int" \in DOMAIN acc.index
  /\ infer_expr_type(acc.target, env_stack).err = "none"
  /\ Resolve(env_stack, acc.target.name).sym.type.type \in {"Tuple", "TupleType"}
  /\ acc.index.int < Len(Resolve(env_stack, acc.target.name).sym.type.elements)

FieldType(acc) ==
  Resolve(env_stack, acc.target.name).sym.type.elements[acc.index.int + 1]

\* The statement reads a tuple field ('let y = x.k;', 'x.k;') or assigns one
\* of a mut x with a value of the field's type.
TupleUse(node) ==
  \/ /\ node.type = "VarDecl" /\ node.var_type = NoneT
     /\ TupleField(node.init)
  \/ /\ node.type = "ExprStmt"
     /\ TupleField(node.expr)
  \/ /\ node.type = "Assignment"
     /\ TupleField(node.target)
     /\ Resolve(env_stack, node.target.target.name).sym.mut
     /\ infer_expr_type(node.value, env_stack).err = "none"
     /\ Structural(infer_expr_type(node.value, env_stack).type)
          = Structural(FieldType(node.target))

\* C12: on a variable or parameter of an n-element tuple type, the field k,
\* k < n, can be read, its type being the k-th element type, and, when the
\* variable is mut, can be assigned a value of the k-th element type.
C12_TupleAccess ==
  [][(VisitStep /\ TupleUse(last'))
       => /\ sem_err' = "none"
          /\ (last'.type = "VarDecl")
               => env_stack'[Len(env_stack')][last'.name].type
                    = FieldType(last'.init)]_sem_vars

\* The position is inside the body of a WhileStmt, ForStmt or LoopStmt.
InLoop == \E i \in DOMAIN ctx : ctx[i] \in {"while", "for", "loop"}

RECURSIVE Stray(_)
\* The node holds a break or continue that no LoopExpr of the node encloses.
Stray(node) ==
  CASE node.type \in {"BreakStmt", "ContinueStmt"} -> TRUE
    [] node.type = "VarDecl" -> Stray(node.init)
    [] node.type = "Assignment" -> Stray(node.value)
    [] node.type = "ExprStmt" -> Stray(node.expr)
    [] node.type = "ReturnStmt" -> Stray(node.expression)
    [] node.type = "FunctionExprBlock" ->
         \E i \in DOMAIN node.elements : Stray(node.elements[i])
    [] OTHER -> FALSE

\* C13: a break or continue outside every loop body is refused with
\* InvalidControlFlowError, also when it is an element of a block
\* expression; inside a loop body, directly or in an IfStmt of the body, it
\* is accepted.
C13_ControlFlow ==
  [][(VisitStep /\ Stray(last'))
       => IF InLoop THEN last'.type \in {"BreakStmt", "ContinueStmt"}
                           => sem_err' = "none"
          ELSE sem_err' = "InvalidControlFlowError"]_sem_vars

\* What the return rule says of a ReturnStmt in a function declared to
\* return expected, where the statement's expression, if any, has type t.
ReturnRule(stmt, t, expected) ==
  IF stmt.expression = NoneE
    THEN IF expected = NoneT THEN "none" ELSE "ReturnTypeError"
  ELSE IF expected = NoneT THEN "ReturnTypeError"
  ELSE IF Structural(t) # Structural(expected) THEN "ReturnTypeError"
  ELSE "none"

\* The ReturnStmts among the leading elements of the block expression that
\* a declaration initialises its variable with.
InnerReturns(node) ==
  IF node.type = "VarDecl" /\ node.init.type = "FunctionExprBlock"
    THEN {node.init.elements[i] : i \in {j \in DOMAIN node.init.elements :
                                           node.init.elements[j].type = "ReturnStmt"}}
    ELSE {}

\* C14: every ReturnStmt of a function is refused with ReturnTypeError when
\* it carries a value in a function without return type, carries none in a
\* function with one, or carries a value of another type than the declared
\* one; otherwise it is accepted.
C14_ReturnChecked ==
  [][VisitStep
       => /\ (last'.type = "ReturnStmt"
                /\ (last'.expression # NoneE
                      => infer_expr_type(last'.expression, env_stack).err = "none"))
               => sem_err' = ReturnRule(last',
                                        infer_expr_type(last'.expression, env_stack).type,
                                        expected_return_type)
          /\ \A r \in InnerReturns(last') :
               ReturnRule(r, infer_expr_type(r.expression, push_env(env_stack)).type,
                          expected_return_type) # "none"
                 => sem_err' = "ReturnTypeError"]_sem_vars

\* The statement is 'let b = callee(e1, .., en);' with every ei typed.
CallDecl(node) ==
  /\ node.type = "VarDecl" /\ node.var_type = NoneT
  /\ node.init.type = "CallExpression"
  /\ infer_all(node.init.arguments, <<>>, env_stack).err = "none"

\* The declaration of a function of the program, by name.
Declared(name) == \E i \in DOMAIN ast : ast[i].name = name
DeclOf(name) == ast[CHOOSE i \in DOMAIN ast : ast[i].name = name]

\* The arguments agree in number and type with the parameters.
ArgsMatch(types, params) ==
  /\ Len(types) = Len(params)
  /\ \A i \in DOMAIN params : types[i] = params[i].type

ReadsUninitialized(node) ==
  /\ ReadOf(node) # NoneE
  /\ Resolve(env_stack, ReadOf(node).name).k # 0
  /\ ~Resolve(env_stack, ReadOf(node).name).sym.initialized

\* The name resolves to an uninitialized symbol before the step and to an
\* initialized one after it, in the same scopes.
BecomesInitialized(name) ==
  /\ Len(env_stack') = Len(env_stack)
  /\ Resolve(env_stack, name).k # 0
  /\ ~Resolve(env_stack, name).sym.initialized
  /\ Resolve(env_stack', name).k # 0
  /\ Resolve(env_stack', name).sym.initialized

\* The statement assigns to the identifier or declares it with an initializer.
Initializes(node, name) ==
  \/ node.type = "Assignment" /\ node.target = Identifier(name)
  \/ node.type = "VarDecl" /\ node.name = name /\ node.init # NoneE

\* C16 as stated: every read of an identifier whose symbol has
\* initialized = false fails with UninitializedVariableError.
C16_AsStated ==
  [][(VisitStep /\ ReadsUninitialized(last'))
       => sem_err' = "UninitializedVariableError"]_sem_vars

\* C16: a read of an identifier whose symbol has initialized = false fails,
\* with UninitializedVariableError when the symbol's type is known and with
\* TypeMismatchError when it is not ('let x;'); 'let x: T;' leaves x
\* uninitialized, and only an accepted assignment to x or a declaration of
\* x with an initializer makes x initialized.
C16_Uninitialized ==
  [][VisitStep
       => /\ ReadsUninitialized(last')
               => sem_err' = IF Resolve(env_stack, ReadOf(last').name).sym.type = NoneT
                               THEN "TypeMismatchError"
                               ELSE "UninitializedVariableError"
          /\ (last'.type = "VarDecl" /\ last'.var_type # NoneT /\ last'.init = NoneE)
               => /\ sem_err' = "none"
                  /\ ~env_stack'[Len(env_stack')][last'.name].initialized
          /\ \A name \in Names :
               (sem_err' = "none" /\ BecomesInitialized(name))
                 => Initializes(last', name)]_sem_vars

\* A variable declared by 'let x: T;' has been read before any assignment.
C16_Witness ==
  /\ sem_err = "UninitializedVariableError"
  /\ ReadOf(last) # NoneE
  /\ ~Resolve(env_stack, ReadOf(last).name).sym.initialized

\* The statement is '*p = e;' with p a readable reference and e typed.
DerefAssign(node) ==
  /\ node.type = "Assignment"
  /\ node.target.type = "DerefExpr"
  /\ infer_expr_type(node.target.operand, env_stack).err = "none"
  /\ infer_expr_type(node.target.operand, env_stack).type.type = "ReferenceType"
  /\ infer_expr_type(node.value, env_stack).err = "none"

\* C17: '*p = e' is accepted only when p is a mutable reference and the
\* type of e is the type p refers to; it is refused when p is an immutable
\* reference and when the type of e is another one.
C17_DerefAssignment ==
  [][(VisitStep /\ DerefAssign(last'))
       => LET ref == infer_expr_type(last'.target.operand, env_stack).type
              rhs == infer_expr_type(last'.value, env_stack).type
          IN (sem_err' = "none") <=> (ref.mut /\ rhs = ref.inner)]_sem_vars

\* The statement is 'let x: i32 = { .. };' and the elements of the block
\* before its last one are accepted.
BlockDecl(node) ==
  /\ node.type = "VarDecl" /\ node.var_type = I32
  /\ node.init.type = "FunctionExprBlock"
  /\ check_block_elements(node.init.elements, 1, push_env(env_stack)).err = "none"

\* The block ends with an expression that no ';' terminates.
Unterminated(elements) ==
  /\ elements # <<>>
  /\ elements[Len(elements)].type
       \notin {"ExprStmt", "VarDecl", "Assignment", "ReturnStmt", "BreakStmt",
               "ContinueStmt", "EmptyStmt"}

TrailingType(elements) ==
  infer_expr_type(elements[Len(elements)],
                  check_block_elements(elements, 1, push_env(env_stack)).env)

\* C18: the type of a block expression is the type of its trailing element
\* when that is an unterminated expression and unit otherwise, so that a
\* block of terminated elements, or an empty one, does not initialise an
\* i32 variable.
C18_BlockType ==
  [][(VisitStep /\ BlockDecl(last'))
       => IF Unterminated(last'.init.elements)
            THEN TrailingType(last'.init.elements).err = "none"
                   => sem_err' = IF TrailingType(last'.init.elements).type = I32
                                   THEN "none" ELSE "TypeMismatchError"
            ELSE sem_err' = "TypeMismatchError"]_sem_vars

\* SemanticError and its subclasses; Python's own exceptions are no member.
SemanticErrors ==
  {"SemanticError", "UndeclaredVariableError", "ImmutableAssignmentError",
   "TypeMismatchError", "ReturnTypeError", "InvalidControlFlowError",
   "UninitializedVariableError", "BorrowCheckError"}

\* The statement is 'let y = x.i;', x a readable identifier of tuple type and
\* i a name or a number that is no index of the tuple.
BadTupleIndex(node) ==
  /\ node.type = "VarDecl" /\ node.var_type = NoneT
  /\ node.init.type = "TupleAccess"
  /\ node.init.target.type = "Identifier"
  /\ infer_expr_type(node.init.target, env_stack).err = "none"
  /\ infer_expr_type(node.init.target, env_stack).type.type \in {"Tuple", "TupleType"}
  /\ \/ "str" \in DOMAIN node.init.index
     \/ /\ "int" \in DOMAIN node.init.index
        /\ node.init.index.int
             >= Len(infer_expr_type(node.init.target, env_stack).type.elements)

\* C19: a TupleAccess whose index is an identifier, and one whose integer
\* index is not below the length of the tuple, is refused with a
\* SemanticError and fails in no other way.
C19_TupleIndexRejected ==
  [][(VisitStep /\ BadTupleIndex(last')) => sem_err' \in SemanticErrors]_sem_vars

\* C28: while analyze() runs and after it, the scope stack is never empty
\* and loop_depth never negative; when analyze() has returned without
\* error, the scope stack holds the global scope alone and loop_depth is 0.
C28_ScopesBalanced ==
  /\ env_stack # <<>>
  /\ loop_depth >= 0
  /\ sem_pc = "done" => Len(env_stack) = 1 /\ loop_depth = 0

\* analyze() has returned without error from a program of which it
\* visited as many statements as the bound allows.
C28_Witness ==
  /\ sem_pc = "done"
  /\ sem_err = "none"
  /\ nstmts = MaxStmts
  /\ Len(env_stack) = 1
  /\ loop_depth = 0


\* C30: 'let name: T = name;' declares name, initialized and of type T, before
\* the initializer is checked, so the declaration is accepted whether or not
\* an earlier binding of name exists; 'let name = name;' checks the
\* initializer first, so it fails as undeclared without an earlier binding
\* and otherwise takes the earlier binding's type.
SelfInit(node) ==
  /\ node.type = "VarDecl"
  /\ node.init = Identifier(node.name)

BoundBy(node) == env_stack'[Len(env_stack')][node.name]

C30_DeclaredBeforeInit ==
  [][(VisitStep /\ SelfInit(last')) =>
       IF last'.var_type # NoneT
         THEN /\ sem_err' = "none"
              /\ BoundBy(last').type = last'.var_type
              /\ BoundBy(last').initialized
         ELSE IF Resolve(env_stack, last'.name).k = 0
           THEN sem_err' = "UndeclaredVariableError"
           ELSE identifier_type(Resolve(env_stack, last'.name).k,
                                Resolve(env_stack, last'.name).sym,
                                env_stack).err = "none"
                  => /\ sem_err' = "none"
                     /\ BoundBy(last').type
                          = Resolve(env_stack, last'.name).sym.type]_vars

\* 'let b: i32 = b;' was accepted although no scope held b before it.
C30_Witness ==
  /\ sem_pc = "body"
  /\ last = VarDecl(FALSE, "b", I32, Identifier("b"))
  /\ nstmts = 1
  /\ env_stack[Len(env_stack)]["b"].type = I32


(* ========================= QuadrupleGenerator ========================= *)
Quad(op, arg1, arg2, result) ==
  [op |-> op, arg1 |-> arg1, arg2 |-> arg2, result |-> result]

\* The generator's counters and quad list while one handler runs; v is the
\* value the handler returns.
GenState == [q |-> quadruples, t |-> temp_counter, l |-> label_counter, v |-> None]

Then(r, K(_)) == K(r)
Emit(st, quad) == [st EXCEPT !.q = Append(@, quad)]
Returning(st, v) == [st EXCEPT !.v = v]

new_temp(st) == [st EXCEPT !.t = @ + 1, !.v = "t" \o ToString(st.t)]
new_label(st) == [st EXCEPT !.l = @ + 1, !.v = "L" \o ToString(st.l)]

LabelQuad(label) == Quad(label \o ":", None, None, None)

RECURSIVE process_expr(_, _)

process_binary_expr(expr, st) ==
  Then(process_expr(expr.left, st), LAMBDA left :
  Then(process_expr(expr.right, left), LAMBDA right :
  Then(new_temp(right), LAMBDA temp :
       Emit(temp, Quad(expr.operator, left.v, right.v, temp.v)))))

if_expr_else(expr, st, else_label, end_label, result_temp) ==
  Then(process_expr(expr.else, Emit(st, LabelQuad(else_label))), LAMBDA else_value :
       Returning(Emit(Emit(else_value, Quad("=", else_value.v, None, result_temp)),
                      LabelQuad(end_label)),
                 result_temp))

if_expr_then(expr, st, cond, else_label, end_label, result_temp) ==
  Then(process_expr(expr.then, Emit(st, Quad("ifz", cond, None, else_label))),
       LAMBDA then_value :
       if_expr_else(expr,
                    Emit(Emit(then_value, Quad("=", then_value.v, None, result_temp)),
                         Quad("goto", None, None, end_label)),
                    else_label, end_label, result_temp))

process_if_expr(expr, st) ==
  Then(process_expr(expr.condition, st), LAMBDA cond :
  Then(new_label(cond), LAMBDA else_label :
  Then(new_label(else_label), LAMBDA end_label :
  Then(new_temp(end_label), LAMBDA result_temp :
       if_expr_then(expr, result_temp, cond.v, else_label.v, end_label.v,
                    result_temp.v)))))

\* The loop context pushed for the body is popped again before the return,
\* and the body, a FunctionExprBlock, is handed to process_expr.
process_loop_expr(expr, st) ==
  Then(new_label(st), LAMBDA start_label :
  Then(new_label(start_label), LAMBDA end_label :
  Then(new_temp(end_label), LAMBDA result_temp :
  Then(process_expr(expr.body, Emit(result_temp, LabelQuad(start_label.v))),
       LAMBDA body :
       Returning(Emit(Emit(body, Quad("goto", None, None, start_label.v)),
                      LabelQuad(end_label.v)),
                 result_temp.v)))))

process_ref_expr(expr, st) ==
  Then(process_expr(expr.operand, st), LAMBDA operand :
  Then(new_temp(operand), LAMBDA temp :
       Emit(temp, Quad("&", operand.v, IF expr.mut THEN "mut" ELSE "const", temp.v))))

process_expr(expr, st) ==
  CASE expr.type = "BinaryExpression" -> process_binary_expr(expr, st)
    [] expr.type = "Identifier" -> Returning(st, expr.name)
    [] expr.type = "Literal" -> Returning(st, ToString(expr.value))
    [] expr.type = "IfExpr" -> process_if_expr(expr, st)
    [] expr.type = "LoopExpr" -> process_loop_expr(expr, st)
    [] expr.type = "RefExpr" -> process_ref_expr(expr, st)
    [] OTHER -> Returning(st, None)

(* ------------------------------ programs ------------------------------ *)
GenNames == {"f", "g", "L0"}

GenDecl(name) ==
  FunctionDecl(name, IF name = "f" THEN <<Param(FALSE, "a", I32)>> ELSE <<>>,
               NoneT, "gen")

DistinctNames(n) ==
  {s \in [1..n -> GenNames] : \A i, j \in 1..n : s[i] = s[j] => i = j}

GenPrograms ==
  UNION {{[i \in 1..n |-> GenDecl(names[i])] : names \in DistinctNames(n)} :
           n \in 1..MaxFuncs}

GenExprs ==
  { BinaryExpression("+", Identifier("a"), Literal(1)),
    LoopExpr(FunctionExprBlock(<<BreakStmt(Literal(0))>>)),
    IfExpr(Identifier("a"), FunctionExprBlock(<<Literal(0)>>),
           FunctionExprBlock(<<Literal(1)>>)) }
GenConds == {BinaryExpression("<", Identifier("a"), Literal(1))}
GenDecls == {VarDecl(TRUE, "b", I32, Literal(0)), VarDecl(FALSE, "b", NoneT, NoneE)}

(* ------------------------------ generate ------------------------------ *)
GenDeclNode == ast[gen_idx]
GenTop == gen_ctx[Len(gen_ctx)]
\* An open handler with its local variables: else_label of an if,
\* start_label of a loop, end_label of both, var_name of a for.
Frame(kind, else_label, start_label, end_label, var) ==
  [kind |-> kind, else_label |-> else_label, start_label |-> start_label,
   end_label |-> end_label, var |-> var]
LoopInfo(start_label, end_label) ==
  [start_label |-> start_label, end_label |-> end_label]
GenPop == SubSeq(gen_ctx, 1, Len(gen_ctx) - 1)

\* The handler that ran left the generator in st; every quad it appended
\* was emitted for the function being processed.
Emitted(st) ==
  /\ quadruples' = st.q
  /\ temp_counter' = st.t
  /\ label_counter' = st.l
  /\ owner' = [i \in 1..Len(st.q) |-> IF i <= Len(owner) THEN owner[i] ELSE gen_idx]
  /\ UNCHANGED <<front_vars, sem_vars>>

GenInit ==
  /\ ast \in GenPrograms
  /\ SemConstructed
  /\ GenConstructed
  /\ Once

\* generate(): _reset(), then _process_program starts on the declarations.
Generate ==
  /\ gen_pc = "init"
  /\ quadruples' = <<>>
  /\ temp_counter' = 0
  /\ label_counter' = 0
  /\ loop_stack' = <<>>
  /\ current_function' = None
  /\ gen_pc' = "decl"
  /\ gen_idx' = 1
  /\ gen_last' = NoneE
  /\ UNCHANGED <<front_vars, sem_vars, gen_ctx, gen_n, owner>>

RECURSIVE process_parameters(_, _)
process_parameters(params, st) ==
  IF params = <<>> THEN st
  ELSE process_parameters(Tail(params),
                          Emit(st, Quad("param", Head(params).name, None, None)))

\* _process_function up to the call of _process_block.
ProcessFunction ==
  /\ gen_pc = "decl"
  /\ gen_idx <= Len(ast)
  /\ current_function' = GenDeclNode.name
  /\ Emitted(process_parameters(GenDeclNode.params,
                                Emit(GenState, LabelQuad(GenDeclNode.name))))
  /\ gen_ctx' = <<Frame("fn", None, None, None, None)>>
  /\ gen_pc' = "body"
  /\ gen_last' = NoneE
  /\ UNCHANGED <<loop_stack, gen_idx, gen_n>>

CanProcess == gen_pc = "body" /\ gen_n < MaxStmts
CanNest == CanProcess /\ Len(gen_ctx) <= MaxDepth
Processed == gen_n' = gen_n + 1 /\ UNCHANGED <<current_function, gen_pc, gen_idx>>

\* An EmptyStmt, and a VarDecl: _process_elements looks for 'VariableDecl'
\* and _process_statement has no branch for a declaration.
ProcessEmpty ==
  /\ CanProcess
  /\ \E stmt \in {EmptyStmt} \cup GenDecls : Emitted(GenState) /\ gen_last' = stmt
  /\ Processed
  /\ UNCHANGED <<loop_stack, gen_ctx>>

ProcessExprStmt ==
  /\ CanProcess
  /\ \E e \in GenExprs : Emitted(process_expr(e, GenState)) /\ gen_last' = ExprStmt(e)
  /\ Processed
  /\ UNCHANGED <<loop_stack, gen_ctx>>

\* _process_assignment with an Identifier target.
ProcessAssignment ==
  /\ CanProcess
  /\ \E e \in {RefExpr(TRUE, Identifier("a"))} :
       /\ Emitted(Then(process_expr(e, GenState), LAMBDA value :
                       Emit(value, Quad("=", value.v, None, "a"))))
       /\ gen_last' = Assignment(Identifier("a"), e)
  /\ Processed
  /\ UNCHANGED <<loop_stack, gen_ctx>>

ProcessReturn ==
  /\ CanProcess
  /\ \E e \in {NoneE, Identifier("a")} :
       /\ Emitted(IF e # NoneE
                    THEN Then(process_expr(e, GenState), LAMBDA expr :
                              Emit(expr, Quad("return", expr.v, None, None)))
                    ELSE Emit(GenState, Quad("return", None, None, None)))
       /\ gen_last' = ReturnStmt(e)
  /\ Processed
  /\ UNCHANGED <<loop_stack, gen_ctx>>

\* _process_break_stmt (target = "end_label") and _process_continue_stmt
\* (target = "start_label"): ValueError outside of a loop.
\* A jump to the label of the outermost open loop.
Jumped_outermost(target) ==
  /\ IF loop_stack = <<>>
       THEN Emitted(GenState) /\ gen_pc' = "raised"
       ELSE /\ Emitted(Emit(GenState, Quad("goto", None, None, loop_stack[1][target])))
            /\ gen_pc' = gen_pc
  /\ gen_n' = gen_n + 1
  /\ UNCHANGED <<loop_stack, gen_ctx, current_function, gen_idx>>

Jumped(target) ==
  /\ IF loop_stack = <<>>
       THEN Emitted(GenState) /\ gen_pc' = "raised"
       ELSE /\ Emitted(Emit(GenState,
                            Quad("goto", None, None, loop_stack[Len(loop_stack)][target])))
            /\ gen_pc' = gen_pc
  /\ gen_n' = gen_n + 1
  /\ UNCHANGED <<loop_stack, gen_ctx, current_function, gen_idx>>

ProcessBreak ==
  /\ CanProcess
  /\ Jumped("end_label")
  /\ gen_last' = BreakStmt(NoneE)

ProcessContinue ==
  /\ CanProcess
  /\ Jumped("start_label")
  /\ gen_last' = ContinueStmt

\* _process_if_stmt up to the call of _process_block on the then block.
ProcessIf ==
  /\ CanNest
  /\ \E c \in GenConds :
       LET st == Then(process_expr(c, GenState), LAMBDA cond :
                 Then(new_label(cond), LAMBDA else_label :
                 Then(new_label(else_label), LAMBDA end_label :
                      Returning(Emit(end_label, Quad("ifz", cond.v, None, else_label.v)),
                                <<else_label.v, end_label.v>>))))
       IN /\ Emitted(st)
          /\ gen_ctx' = Append(gen_ctx, Frame("then", st.v[1], None, st.v[2], None))
          /\ gen_last' = IfStmt(c)
  /\ Processed
  /\ UNCHANGED loop_stack

\* _process_if_stmt: the then block is done and stmt['else'] is a Block.
ProcessElse ==
  /\ gen_pc = "body"
  /\ GenTop.kind = "then"
  /\ Emitted(Emit(Emit(GenState, Quad("goto", None, None, GenTop.end_label)),
                  LabelQuad(GenTop.else_label)))
  /\ gen_ctx' = [gen_ctx EXCEPT ![Len(gen_ctx)].kind = "else"]
  /\ gen_last' = NoneE
  /\ UNCHANGED <<loop_stack, current_function, gen_pc, gen_idx, gen_n>>

\* _process_if_stmt to its end: after the else block, or after a then block
\* with no else or with an else that is an IfStmt, which _process_block skips.
ProcessEndIf ==
  /\ gen_pc = "body"
  /\ GenTop.kind \in {"then", "else"}
  /\ Emitted(Emit(IF GenTop.kind = "else" THEN GenState
                  ELSE Emit(Emit(GenState, Quad("goto", None, None, GenTop.end_label)),
                            LabelQuad(GenTop.else_label)),
                  LabelQuad(GenTop.end_label)))
  /\ gen_ctx' = GenPop
  /\ gen_last' = NoneE
  /\ UNCHANGED <<loop_stack, current_function, gen_pc, gen_idx, gen_n>>

\* The two labels of a loop, start_label first.
loop_labels(st) ==
  Then(new_label(st), LAMBDA start_label :
  Then(new_label(start_label), LAMBDA end_label :
       Returning(end_label, LoopInfo(start_label.v, end_label.v))))

\* A loop handler has run up to the call of _process_block on the body.
Entered(st, kind, var, stmt) ==
  /\ Emitted(st)
  /\ gen_last' = stmt
  /\ loop_stack' = Append(loop_stack, st.v)
  /\ gen_ctx' = Append(gen_ctx, Frame(kind, None, st.v.start_label, st.v.end_label, var))
  /\ Processed

ProcessWhile ==
  /\ CanNest
  /\ \E c \in GenConds :
       Entered(Then(loop_labels(GenState), LAMBDA info :
               Then(process_expr(c, Emit(info, LabelQuad(info.v.start_label))),
                    LAMBDA cond :
                    Returning(Emit(cond, Quad("ifz", cond.v, None, info.v.end_label)),
                              info.v))),
               "while", None, WhileStmt(c))

ProcessFor ==
  /\ CanNest
  /\ \E is_mut \in BOOLEAN :
       Entered(Then(process_expr(Literal(0), GenState), LAMBDA start :
               Then(process_expr(Identifier("a"), start), LAMBDA end :
               Then(loop_labels(end), LAMBDA info :
               Then(new_temp(
                      Emit(Emit(Emit(info,
                        Quad("declare", "b", IF is_mut THEN "mut" ELSE "const", None)),
                        Quad("=", start.v, None, "b")),
                        LabelQuad(info.v.start_label))),
                    LAMBDA temp :
                    Returning(Emit(Emit(temp, Quad("<", "b", end.v, temp.v)),
                                   Quad("ifz", temp.v, None, info.v.end_label)),
                              info.v))))),
               "for", "b", ForStmt(is_mut, "b", Literal(0), Identifier("a")))

ProcessLoop ==
  /\ CanNest
  /\ Entered(Then(loop_labels(GenState), LAMBDA info :
                  Returning(Emit(info, LabelQuad(info.v.start_label)), info.v)),
             "loop", None, LoopStmt)

\* A loop handler from the return of _process_block to its end.
loop_end(st) ==
  Emit(Emit(st, Quad("goto", None, None, GenTop.start_label)),
       LabelQuad(GenTop.end_label))

Left(st) ==
  /\ Emitted(st)
  /\ gen_last' = NoneE
  /\ loop_stack' = SubSeq(loop_stack, 1, Len(loop_stack) - 1)
  /\ gen_ctx' = GenPop
  /\ UNCHANGED <<current_function, gen_pc, gen_idx, gen_n>>

ProcessEndWhile == gen_pc = "body" /\ GenTop.kind = "while" /\ Left(loop_end(GenState))

\* A for statement that ends as a while statement does, with no increment.
ProcessEndFor_bare == gen_pc = "body" /\ GenTop.kind = "for" /\ Left(loop_end(GenState))

ProcessEndFor ==
  /\ gen_pc = "body"
  /\ GenTop.kind = "for"
  /\ Left(Then(new_temp(GenState), LAMBDA inc_temp :
               loop_end(Emit(Emit(inc_temp, Quad("+", GenTop.var, "1", inc_temp.v)),
                             Quad("=", inc_temp.v, None, GenTop.var)))))

ProcessEndLoop == gen_pc = "body" /\ GenTop.kind = "loop" /\ Left(loop_end(GenState))

\* _process_function after _process_block returns.
ProcessEndFunction ==
  /\ gen_pc = "body"
  /\ GenTop.kind = "fn"
  /\ Emitted(IF \E i \in 1..Len(quadruples) : quadruples[i].op = "return"
               THEN GenState
               ELSE Emit(GenState, Quad("return", None, None, None)))
  /\ current_function' = None
  /\ gen_ctx' = <<>>
  /\ gen_last' = NoneE
  /\ gen_idx' = gen_idx + 1
  /\ gen_pc' = "decl"
  /\ UNCHANGED <<loop_stack, gen_n>>

\* generate() returns self.quadruples.
GenerateDone ==
  /\ gen_pc = "decl"
  /\ gen_idx > Len(ast)
  /\ gen_pc' = "done"
  /\ UNCHANGED <<front_vars, sem_vars, quadruples, temp_counter, label_counter, loop_stack,
                 current_function, gen_idx, gen_ctx, gen_n, owner, gen_last>>

GenNext ==
  \/ Generate \/ ProcessFunction \/ ProcessEndFunction \/ GenerateDone
  \/ ProcessEmpty \/ ProcessExprStmt \/ ProcessAssignment \/ ProcessReturn
  \/ ProcessBreak \/ ProcessContinue
  \/ ProcessIf \/ ProcessElse \/ ProcessEndIf
  \/ ProcessWhile \/ ProcessEndWhile \/ ProcessFor \/ ProcessEndFor
  \/ ProcessLoop \/ ProcessEndLoop

GenSpec == GenInit /\ [][GenNext]_vars

(* ====================== properties: the generator ===================== *)
\* The places in the quad list of the label quad of a jump target.
LabelQuads(label) ==
  {j \in 1..Len(quadruples) : quadruples[j] = LabelQuad(label)}

\* C1: when generate() has returned, the target of every 'goto' and 'ifz'
\* quad is the label of exactly one label quad, and that label quad was
\* emitted for the function the jump was emitted for.
C1_JumpTargets ==
  gen_pc = "done" =>
    \A i \in 1..Len(quadruples) :
      quadruples[i].op \in {"goto", "ifz"} =>
        /\ Cardinality(LabelQuads(quadruples[i].result)) = 1
        /\ \A j \in LabelQuads(quadruples[i].result) : owner[j] = owner[i]

\* C2: when generate() has returned, the quads emitted for each function,
\* from its entry label to the next function's, hold a 'return' quad.
C2_EveryFunctionReturns ==
  gen_pc = "done" =>
    \A f \in 1..Len(ast) :
      \E i \in 1..Len(quadruples) : owner[i] = f /\ quadruples[i].op = "return"

\* C25: the step that handles a VarDecl appends ('declare', name, 'mut' or
\* 'const', type) to the quads and, when the declaration has an
\* initializer, ends them with ('=', src, None, name), src the operand the
\* initializer lowers to.
C25_VarDeclQuads ==
  [][gen_last'.type = "VarDecl" =>
       /\ Len(quadruples') > Len(quadruples)
       /\ quadruples'[Len(quadruples) + 1] =
            Quad("declare", gen_last'.name,
                 IF gen_last'.mut THEN "mut" ELSE "const", gen_last'.var_type)
       /\ gen_last'.init # NoneE =>
            quadruples'[Len(quadruples')] =
              Quad("=", process_expr(gen_last'.init, GenState).v, None,
                   gen_last'.name)]_vars

\* The quads that the step appends.
Appended == SubSeq(quadruples', Len(quadruples) + 1, Len(quadruples'))

\* The operand that the final expression of a block lowers to.
TailValue(block) == process_expr(block.elements[Len(block.elements)], GenState).v

\* The values of the 'break e' statements of a block.
BreakValues(block) ==
  { process_expr(block.elements[i].expression, GenState).v :
      i \in {j \in DOMAIN block.elements :
               /\ block.elements[j].type = "BreakStmt"
               /\ block.elements[j].expression # NoneE} }

\* C26: the step that lowers an IfExpr appends a copy of the value of the
\* then block and a copy of the value of the else block into one
\* temporary; the step that lowers a LoopExpr appends, for every 'break e'
\* of its body, a copy of the value of e into a temporary, followed by the
\* goto to the loop's end label, the label quad that ends the loop.
C26_ResultTemporary ==
  [][gen_last'.type = "ExprStmt" =>
       /\ gen_last'.expr.type = "IfExpr" =>
            \E i, j \in DOMAIN Appended :
              /\ Appended[i] = Quad("=", TailValue(gen_last'.expr.then), None,
                                    Appended[j].result)
              /\ Appended[j] = Quad("=", TailValue(gen_last'.expr.else), None,
                                    Appended[i].result)
       /\ gen_last'.expr.type = "LoopExpr" =>
            \A v \in BreakValues(gen_last'.expr.body) :
              \E i \in DOMAIN Appended :
                /\ i < Len(Appended)
                /\ Appended[i].op = "="
                /\ Appended[i].arg1 = v
                /\ Appended[i + 1].op = "goto"
                /\ LabelQuad(Appended[i + 1].result) = Appended[Len(Appended)]]_vars

\* The open while, for and loop statements, innermost last.
IsLoop(frame) == frame.kind \in {"while", "for", "loop"}
OpenLoops == SelectSeq(gen_ctx, IsLoop)

\* C27: the loop stack has one entry per open loop statement and is empty
\* when generate() has returned; the step that lowers a break appends the
\* goto to the end label, and the step that lowers a continue the goto to
\* the start label, of the innermost open loop statement, and the
\* statement is rejected only when no loop is open.
C27_LoopStack ==
  /\ [](/\ Len(loop_stack) = Len(OpenLoops)
        /\ gen_pc = "done" => loop_stack = <<>>)
  /\ [][gen_last'.type \in {"BreakStmt", "ContinueStmt"} =>
          IF OpenLoops = <<>> THEN gen_pc' = "raised"
          ELSE /\ gen_pc' = "body"
               /\ Appended =
                    << Quad("goto", None, None,
                            IF gen_last'.type = "BreakStmt"
                              THEN OpenLoops[Len(OpenLoops)].end_label
                              ELSE OpenLoops[Len(OpenLoops)].start_label) >>]_vars

\* A break is lowered in a for statement inside a while statement.
C27_Witness ==
  /\ gen_last.type = "BreakStmt"
  /\ Len(OpenLoops) = 2
  /\ OpenLoops[1].kind = "while"
  /\ OpenLoops[2].kind = "for"
  /\ quadruples[Len(quadruples)] = Quad("goto", None, None, OpenLoops[2].end_label)

\* The innermost open loop statement.
InnerLoop == OpenLoops[Len(OpenLoops)]

\* C29: the step that enters a for statement ends its quads with the start
\* label, the test ('<', v, end, t) and the ifz to the end label; the step
\* that lowers a continue whose innermost loop is a for statement appends
\* the goto to that start label, a label quad of which stands right before
\* the test; the step that leaves the for statement, after its body with
\* the goto of the continue, appends the increment ('+', v, '1', t),
\* ('=', t, None, v), then the goto to the start label and the end label.
C29_ForContinue ==
  [][/\ gen_last'.type = "ForStmt" =>
          /\ Len(Appended) >= 3
          /\ Appended[Len(Appended) - 2] = LabelQuad(loop_stack'[Len(loop_stack')].start_label)
          /\ Appended[Len(Appended) - 1].op = "<"
          /\ Appended[Len(Appended) - 1].arg1 = gen_last'.var
          /\ Appended[Len(Appended)] =
               Quad("ifz", Appended[Len(Appended) - 1].result, None,
                    loop_stack'[Len(loop_stack')].end_label)
     /\ (gen_last'.type = "ContinueStmt" /\ OpenLoops # <<>>) =>
          (InnerLoop.kind = "for" =>
             /\ Appended = <<Quad("goto", None, None, InnerLoop.start_label)>>
             /\ \E k \in LabelQuads(InnerLoop.start_label) :
                  /\ quadruples[k + 1].op = "<"
                  /\ quadruples[k + 1].arg1 = InnerLoop.var)
     /\ (OpenLoops # <<>> /\ Len(OpenLoops') < Len(OpenLoops)) =>
          (InnerLoop.kind = "for" =>
             /\ Len(Appended) = 4
             /\ Appended[1] = Quad("+", InnerLoop.var, "1", Appended[1].result)
             /\ Appended[2] = Quad("=", Appended[1].result, None, InnerLoop.var)
             /\ Appended[3] = Quad("goto", None, None, InnerLoop.start_label)
             /\ Appended[4] = LabelQuad(InnerLoop.end_label))]_vars

\* generate() has returned the quads of a for statement with a continue in
\* its body: the goto of the continue stands before the increment.
C29_Witness ==
  /\ gen_pc = "done"
  /\ \E i, j \in DOMAIN quadruples :
       /\ i < j
       /\ quadruples[i].op = "goto"
       /\ quadruples[j] = Quad("+", "b", "1", quadruples[j].result)
       /\ quadruples[j + 2] = Quad("goto", None, None, quadruples[i].result)
       /\ \E k \in LabelQuads(quadruples[i].result) :
            k < i /\ quadruples[k + 1].op = "<" /\ quadruples[k + 1].arg1 = "b"

(* ============================== Lexer ================================= *)
MaxLen == 4         \* characters of a source text

\* One character of each kind that get_next_token tells apart.
Alphabet == {"a", "1", " ", "\n", "#", "@", "/", "*", "="}

\* str.isspace, str.isalpha and str.isdigit on the characters of the model.
Spaces == {" ", "\n"}
Letters ==
  { "a", "b", "c", "d", "e", "f", "g", "h", "i", "j", "k", "l", "m", "n", "o", "p",
    "q", "r", "s", "t", "u", "v", "w", "x", "y", "z" }
Digits == {"0", "1", "2", "3"}

KEYWORDS ==
  { <<"i", "3", "2">>, <<"l", "e", "t">>, <<"i", "f">>, <<"e", "l", "s", "e">>,
    <<"w", "h", "i", "l", "e">>, <<"r", "e", "t", "u", "r", "n">>, <<"m", "u", "t">>,
    <<"f", "n">>, <<"f", "o", "r">>, <<"i", "n">>, <<"l", "o", "o", "p">>,
    <<"b", "r", "e", "a", "k">>, <<"c", "o", "n", "t", "i", "n", "u", "e">> }
OPERATORS ==
  { <<"+">>, <<"-">>, <<"*">>, <<"/">>, <<"=", "=">>, <<">">>, <<">", "=">>,
    <<"<">>, <<"<", "=">>, <<"!", "=">>, <<"&">> }
DELIMITERS == {"(", ")", "{", "}", "[", "]"}
SEPARATORS == {";", ":", ","}
SINGLE_CHAR_OPS == {"+", "-", "*", "/", ">", "<", "!", "&"}

\* Lexer.__init__: self.text = text + '#'.
Text(src) == Append(src, "#")

\* self.text[p] for the 0-based position p, None past the end.
CharAt(text, p) == IF p < Len(text) THEN text[p + 1] ELSE None

\* A token returned with self.pos at p, or the ValueError raised.
Token(type, value, p) == [type |-> type, value |-> value, pos |-> p, err |-> "none"]
Raised(kind, p) == [type |-> "none", value |-> None, pos |-> p, err |-> kind]

RECURSIVE skip_whitespace(_, _)
skip_whitespace(text, p) ==
  IF CharAt(text, p) \in Spaces THEN skip_whitespace(text, p + 1) ELSE p

\* First position from p on whose character is not alphanumeric or '_'.
RECURSIVE identifier_end(_, _)
identifier_end(text, p) ==
  IF CharAt(text, p) \in Letters \cup Digits \cup {"_"}
    THEN identifier_end(text, p + 1) ELSE p

read_identifier(text, p) ==
  IF SubSeq(text, p + 1, identifier_end(text, p)) \in KEYWORDS
    THEN Token("KEYWORD", SubSeq(text, p + 1, identifier_end(text, p)),
               identifier_end(text, p))
    ELSE Token("IDENTIFIER", SubSeq(text, p + 1, identifier_end(text, p)),
               identifier_end(text, p))

RECURSIVE number_end(_, _)
number_end(text, p) ==
  IF CharAt(text, p) \in Digits THEN number_end(text, p + 1) ELSE p

DigitValue(c) == CASE c = "0" -> 0 [] c = "1" -> 1 [] c = "2" -> 2 [] c = "3" -> 3

\* int(''.join(buffer))
RECURSIVE int(_)
int(buffer) ==
  IF buffer = <<>> THEN 0
  ELSE 10 * int(SubSeq(buffer, 1, Len(buffer) - 1)) + DigitValue(buffer[Len(buffer)])

read_number(text, p) ==
  Token("LITERAL", int(SubSeq(text, p + 1, number_end(text, p))), number_end(text, p))

\* First position from p on that is past the end or holds '\n'.
RECURSIVE line_end(_, _)
line_end(text, p) ==
  IF CharAt(text, p) \notin {None, "\n"} THEN line_end(text, p + 1) ELSE p

read_line_comment(text, p) ==
  Token("COMMENT", SubSeq(text, p + 3, line_end(text, p + 2)), line_end(text, p + 2))

\* The loop of read_block_comment with self.pos at p: the position after
\* the closing '*/', or -1 when the text ends first.
RECURSIVE block_end(_, _)
block_end(text, p) ==
  IF CharAt(text, p) = "*" /\ CharAt(text, p + 1) = "/" THEN p + 2
  ELSE IF CharAt(text, p) = None THEN -1
  ELSE block_end(text, p + 1)

read_block_comment(text, p) ==
  IF block_end(text, p + 2) = -1 THEN Raised("ValueError", Len(text))
  ELSE Token("COMMENT", SubSeq(text, p + 3, block_end(text, p + 2) - 2),
             block_end(text, p + 2))

\* A token of type "none" (Python's None) when the text at p starts no operator.
read_operator(text, p) ==
  IF CharAt(text, p + 1) = None THEN Raised("TypeError", p)   \* str + None
  ELSE IF <<CharAt(text, p), CharAt(text, p + 1)>> \in OPERATORS
    THEN Token("OPERATOR", <<CharAt(text, p), CharAt(text, p + 1)>>, p + 2)
  ELSE IF CharAt(text, p) \in SINGLE_CHAR_OPS
    THEN Token("OPERATOR", <<CharAt(text, p)>>, p + 1)
  ELSE Token("none", None, p)

RECURSIVE get_next_token(_, _)
get_next_token(text, p) ==
  IF CharAt(text, p) = None THEN Token("EOF", None, p)
  ELSE IF CharAt(text, p) = "#" THEN Token("EOF", None, p + 1)
  ELSE IF CharAt(text, p) \in Spaces
    THEN get_next_token(text, skip_whitespace(text, p))
  ELSE IF CharAt(text, p) \in Letters \cup {"_"} THEN read_identifier(text, p)
  ELSE IF CharAt(text, p) \in Digits THEN read_number(text, p)
  ELSE IF CharAt(text, p) = "/" /\ CharAt(text, p + 1) = "/"
    THEN read_line_comment(text, p)
  ELSE IF CharAt(text, p) = "/" /\ CharAt(text, p + 1) = "*"
    THEN read_block_comment(text, p)
  ELSE IF CharAt(text, p) = "-" /\ CharAt(text, p + 1) = ">"
    THEN Token("ARROW", <<"-", ">">>, p + 2)
  ELSE IF CharAt(text, p) = "." /\ CharAt(text, p + 1) = "."
    THEN Token("DOUBLE_DOT", <<".", ".">>, p + 2)
  ELSE IF CharAt(text, p) = "." THEN Token("DOT", <<".">>, p + 1)
  ELSE IF read_operator(text, p).type # "none" \/ read_operator(text, p).err # "none"
    THEN read_operator(text, p)
  ELSE IF CharAt(text, p) \in SEPARATORS THEN Token("SEPARATOR", <<CharAt(text, p)>>, p + 1)
  ELSE IF CharAt(text, p) \in DELIMITERS THEN Token("DELIMITER", <<CharAt(text, p)>>, p + 1)
  ELSE IF CharAt(text, p) = "=" THEN Token("ASSIGN", <<"=">>, p + 1)
  ELSE Raised("ValueError", p)

(* -------------------------------- lex --------------------------------- *)
Sources == UNION {[1..n -> Alphabet] : n \in 0..MaxLen}

LexInit ==
  /\ source \in Sources
  /\ lex_pos = 0
  /\ tokens = <<>>
  /\ lex_pc = "scan"
  /\ NoParse
  /\ ast = <<>>
  /\ SemConstructed
  /\ GenConstructed
  /\ run = 0
  /\ log = <<>>
  /\ pos = 0
  /\ first_err = "none"
  /\ reuse = FALSE

\* tok = lexer.get_next_token()
NextToken == get_next_token(Text(source), lex_pos)

\* lex() drops the tokens of these types.
Dropped_none(tok) == FALSE

Dropped(tok) == tok.type = "COMMENT"

\* tokens.append(tok)
LexToken ==
  /\ lex_pc = "scan"
  /\ NextToken.err = "none"
  /\ NextToken.type # "EOF"
  /\ ~Dropped(NextToken)
  /\ tokens' = Append(tokens, [type |-> NextToken.type, value |-> NextToken.value])
  /\ lex_pos' = NextToken.pos
  /\ UNCHANGED <<source, lex_pc, parse_vars, sem_vars, gen_vars>>

\* if tok.type == TokenType.COMMENT: continue
LexComment ==
  /\ lex_pc = "scan"
  /\ NextToken.err = "none"
  /\ NextToken.type # "EOF"
  /\ Dropped(NextToken)
  /\ lex_pos' = NextToken.pos
  /\ UNCHANGED <<source, tokens, lex_pc, parse_vars, sem_vars, gen_vars>>

\* if tok.type == TokenType.EOF: break
LexEof ==
  /\ lex_pc = "scan"
  /\ NextToken.err = "none"
  /\ NextToken.type = "EOF"
  /\ lex_pos' = NextToken.pos
  /\ lex_pc' = "done"
  /\ UNCHANGED <<source, tokens, parse_vars, sem_vars, gen_vars>>

\* get_next_token raises.
LexError ==
  /\ lex_pc = "scan"
  /\ NextToken.err # "none"
  /\ lex_pos' = NextToken.pos
  /\ lex_pc' = "failed"
  /\ UNCHANGED <<source, tokens, parse_vars, sem_vars, gen_vars>>

LexNext == LexToken \/ LexComment \/ LexEof \/ LexError

LexSpec == LexInit /\ [][LexNext]_vars

(* ======================== properties: the lexer ======================= *)
\* The character starts no token of the language.
StartsNoToken(c) ==
  c \notin Spaces \cup Letters \cup Digits \cup SINGLE_CHAR_OPS \cup DELIMITERS
             \cup SEPARATORS \cup {"_", "=", "."}

\* From place i on, read as code, inside a line comment or inside a block
\* comment, the source holds outside the comments a character that starts
\* no token.
RECURSIVE StrayFrom(_, _, _)
StrayFrom(src, i, mode) ==
  IF i > Len(src) THEN FALSE
  ELSE IF mode = "line"
    THEN StrayFrom(src, i + 1, IF src[i] = "\n" THEN "code" ELSE "line")
  ELSE IF mode = "block"
    THEN IF src[i] = "*" /\ i < Len(src) /\ src[i + 1] = "/"
           THEN StrayFrom(src, i + 2, "code")
           ELSE StrayFrom(src, i + 1, "block")
  ELSE IF src[i] = "/" /\ i < Len(src) /\ src[i + 1] = "/"
    THEN StrayFrom(src, i + 2, "line")
  ELSE IF src[i] = "/" /\ i < Len(src) /\ src[i + 1] = "*"
    THEN StrayFrom(src, i + 2, "block")
  ELSE StartsNoToken(src[i]) \/ StrayFrom(src, i + 1, "code")

\* C21: lex() fails for every source that holds, outside a comment, a
\* character that starts no token, '#' among them, wherever it stands.
C21_UnknownCharacter ==
  lex_pc = "done" => ~StrayFrom(source, 1, "code")

\* C22: every call of get_next_token moves the position on by at least one
\* character and gives a token, or gives EOF, or raises; so lex() ends,
\* with a list of tokens that holds no COMMENT and no EOF, or with an error.
C22_LexTerminates ==
  /\ [][\/ lex_pos' > lex_pos /\ lex_pc' = "scan"
        \/ lex_pc' \in {"done", "failed"}]_lex_vars
  /\ [](/\ lex_pos <= Len(source) + 1
        /\ \A i \in DOMAIN tokens : tokens[i].type \notin {"COMMENT", "EOF"})

\* lex() has returned tokens of a source with a closed block comment in it.
C22_Witness ==
  /\ lex_pc = "done"
  /\ tokens # <<>>
  /\ \E i \in 1..(Len(source) - 1) : source[i] = "/" /\ source[i + 1] = "*"


(* ============================== Parser ================================ *)
\* self.tokens[self.pos + offset], a token of type "none" (Python's None)
\* past the end.
NoToken == [type |-> "none", value |-> <<>>]
peek(toks, p, offset) ==
  IF p + offset < Len(toks) THEN toks[p + offset + 1] ELSE NoToken

\* tok and tok.type == type_ and tok.value == value
Is(tok, type, value) == tok.type = type /\ tok.value = value

\* tok.value == value for a token of any type; a LITERAL holds an int.
ValueIs(tok, value) == tok.type \notin {"none", "LITERAL"} /\ tok.value = value

\* is_dot(tok)
is_dot(tok) == tok.type = "DOT" \/ Is(tok, "DELIMITER", <<".">>)

\* What a parse_* method leaves: the node it returns with self.pos at pos,
\* or the class of the exception it raises.
Parsed(node, p) == [err |-> "none", node |-> node, pos |-> p]
Failed(kind, p) == [err |-> kind, node |-> NoneE, pos |-> p]

\* self.match(type_, value): whether it advances.
match(toks, p, type, value) == Is(peek(toks, p, 0), type, value)

\* self.consume(type_, value) and self.consume(type_): the node is the
\* token's value.
consume(toks, p, type, value) ==
  IF Is(peek(toks, p, 0), type, value)
    THEN Parsed(peek(toks, p, 0).value, p + 1)
    ELSE Failed("SyntaxError", p)
consume_any(toks, p, type) ==
  IF peek(toks, p, 0).type = type
    THEN Parsed(peek(toks, p, 0).value, p + 1)
    ELSE Failed("SyntaxError", p)

\* self.match(KEYWORD, 'mut') as the flag and the position it leaves.
match_mut(toks, p) ==
  IF match(toks, p, "KEYWORD", <<"m", "u", "t">>)
    THEN Parsed(TRUE, p + 1) ELSE Parsed(FALSE, p)

\* self.<method>() with self.pos at p: the parse_* methods call each other
\* through this operator, defined after them.
RECURSIVE call(_, _, _)
RECURSIVE parse_type(_, _)
RECURSIVE tuple_types(_, _, _)
RECURSIVE comparison_loop(_, _)
RECURSIVE additive_loop(_, _)
RECURSIVE term_loop(_, _)
RECURSIVE tuple_elements(_, _, _)
RECURSIVE postfix(_, _)
RECURSIVE more_expressions(_, _, _)
RECURSIVE block_loop(_, _, _)
RECURSIVE elements_loop(_, _, _)

(* ------------------------------ parse_type ----------------------------- *)
\* The loop of the tuple type: a type, then another one after each ','.
tuple_types(toks, elements, p) ==
  Bind(parse_type(toks, p), LAMBDA t :
    IF match(toks, t.pos, "SEPARATOR", <<",">>)
      THEN tuple_types(toks, Append(elements, t.node), t.pos + 1)
      ELSE Bind(consume(toks, t.pos, "DELIMITER", <<")">>), LAMBDA c :
             Parsed(TupleType(Append(elements, t.node)), c.pos)))

parse_type(toks, p) ==
  IF match(toks, p, "OPERATOR", <<"&">>)
    THEN Bind(parse_type(toks, match_mut(toks, p + 1).pos), LAMBDA inner :
           Parsed(ReferenceType(match_mut(toks, p + 1).node, inner.node), inner.pos))
  ELSE IF match(toks, p, "DELIMITER", <<"[">>)
    THEN Bind(parse_type(toks, p + 1), LAMBDA inner :
         Bind(consume(toks, inner.pos, "SEPARATOR", <<";">>), LAMBDA c :
         Bind(consume_any(toks, c.pos, "LITERAL"), LAMBDA size :
         Bind(consume(toks, size.pos, "DELIMITER", <<"]">>), LAMBDA d :
           Parsed(ArrayType(inner.node, size.node), d.pos)))))
  ELSE IF match(toks, p, "DELIMITER", <<"(">>)
    THEN IF match(toks, p + 1, "DELIMITER", <<")">>)
           THEN Parsed(TupleType(<<>>), p + 2)
           ELSE Bind(parse_type(toks, p + 1), LAMBDA first :
                Bind(consume(toks, first.pos, "SEPARATOR", <<",">>), LAMBDA c :
                  tuple_types(toks, <<first.node>>, c.pos)))
  ELSE IF match(toks, p, "KEYWORD", <<"i", "3", "2">>) THEN Parsed(I32, p + 1)
  ELSE Failed("SyntaxError", p)

(* --------------------------- parse_expression -------------------------- *)
parse_expression(toks, p) ==
  IF match(toks, p, "KEYWORD", <<"i", "f">>) THEN call("parse_if_expression", toks, p + 1)
  ELSE IF match(toks, p, "KEYWORD", <<"l", "o", "o", "p">>)
    THEN Bind(call("parse_function_expression_block", toks, p + 1), LAMBDA block :
           Parsed(LoopExpr(block.node), block.pos))
  ELSE call("parse_comparison", toks, p)

parse_if_expression(toks, p) ==
  Bind(call("parse_expression", toks, p), LAMBDA cond :
  Bind(call("parse_function_expression_block", toks, cond.pos), LAMBDA then_block :
  Bind(consume(toks, then_block.pos, "KEYWORD", <<"e", "l", "s", "e">>), LAMBDA c :
  Bind(call("parse_function_expression_block", toks, c.pos), LAMBDA else_block :
    Parsed(IfExpr(cond.node, then_block.node, else_block.node), else_block.pos)))))

\* The while loops of parse_comparison, parse_additive and parse_term with
\* node = r.node and self.pos = r.pos.
comparison_loop(toks, r) ==
  IF /\ peek(toks, r.pos, 0).type = "OPERATOR"
     /\ peek(toks, r.pos, 0).value \in
          {<<"<">>, <<"<", "=">>, <<">">>, <<">", "=">>, <<"=", "=">>, <<"!", "=">>}
    THEN Bind(call("parse_additive", toks, r.pos + 1), LAMBDA rhs :
           comparison_loop(toks,
             Parsed(BinaryExpression(peek(toks, r.pos, 0).value, r.node, rhs.node),
                    rhs.pos)))
    ELSE r

parse_comparison(toks, p) ==
  Bind(call("parse_additive", toks, p), LAMBDA node : comparison_loop(toks, node))

additive_loop(toks, r) ==
  IF /\ peek(toks, r.pos, 0).type = "OPERATOR"
     /\ peek(toks, r.pos, 0).value \in {<<"+">>, <<"-">>}
    THEN Bind(call("parse_term", toks, r.pos + 1), LAMBDA rhs :
           additive_loop(toks,
             Parsed(BinaryExpression(peek(toks, r.pos, 0).value, r.node, rhs.node),
                    rhs.pos)))
    ELSE r

parse_additive(toks, p) ==
  Bind(call("parse_term", toks, p), LAMBDA node : additive_loop(toks, node))

term_loop(toks, r) ==
  IF /\ peek(toks, r.pos, 0).type = "OPERATOR"
     /\ peek(toks, r.pos, 0).value \in {<<"*">>, <<"/">>}
    THEN Bind(call("parse_factor", toks, r.pos + 1), LAMBDA rhs :
           term_loop(toks,
             Parsed(BinaryExpression(peek(toks, r.pos, 0).value, r.node, rhs.node),
                    rhs.pos)))
    ELSE r

parse_term(toks, p) ==
  Bind(call("parse_factor", toks, p), LAMBDA node : term_loop(toks, node))

(* ----------------------------- parse_factor ---------------------------- *)
\* The loop of the tuple literal: an expression, then another one after
\* each ','.
tuple_elements(toks, elems, p) ==
  Bind(call("parse_expression", toks, p), LAMBDA e :
    IF match(toks, e.pos, "SEPARATOR", <<",">>)
      THEN tuple_elements(toks, Append(elems, e.node), e.pos + 1)
      ELSE Bind(consume(toks, e.pos, "DELIMITER", <<")">>), LAMBDA c :
             Parsed(TupleLiteral(Append(elems, e.node)), c.pos)))

\* The postfix loop of parse_factor with node = r.node and self.pos = r.pos:
\* it goes round again after an index, and ends after a tuple access.
postfix(toks, r) ==
  IF Is(peek(toks, r.pos, 0), "DELIMITER", <<"[">>)
    THEN Bind(call("parse_expression", toks, r.pos + 1), LAMBDA idx :
         Bind(consume(toks, idx.pos, "DELIMITER", <<"]">>), LAMBDA c :
           postfix(toks, Parsed(IndexExpr(r.node, idx.node), c.pos))))
  ELSE IF is_dot(peek(toks, r.pos, 0))
    THEN IF peek(toks, r.pos, 1).type = "LITERAL"
           THEN Parsed(TupleAccess(r.node, IntIndex(peek(toks, r.pos, 1).value)),
                       r.pos + 2)
         ELSE IF peek(toks, r.pos, 1).type = "IDENTIFIER"
           THEN Parsed(TupleAccess(r.node, StrIndex(peek(toks, r.pos, 1).value)),
                       r.pos + 2)
         ELSE Failed("SyntaxError", r.pos + 1)
  ELSE r

parse_factor(toks, p) ==
  IF peek(toks, p, 0).type = "none" THEN Failed("SyntaxError", p)
  ELSE IF Is(peek(toks, p, 0), "DELIMITER", <<"{">>)
    THEN call("parse_function_expression_block", toks, p)
  ELSE IF Is(peek(toks, p, 0), "DELIMITER", <<"[">>)
    THEN call("parse_array_literal", toks, p)
  ELSE IF Is(peek(toks, p, 0), "DELIMITER", <<"(">>)
    THEN IF match(toks, p + 1, "DELIMITER", <<")">>)
           THEN postfix(toks, Parsed(TupleLiteral(<<>>), p + 2))
           ELSE Bind(call("parse_expression", toks, p + 1), LAMBDA first :
                  IF match(toks, first.pos, "SEPARATOR", <<",">>)
                    THEN Bind(tuple_elements(toks, <<first.node>>, first.pos + 1),
                              LAMBDA node : postfix(toks, node))
                    ELSE Bind(consume(toks, first.pos, "DELIMITER", <<")">>),
                              LAMBDA c : postfix(toks, Parsed(first.node, c.pos))))
  ELSE IF Is(peek(toks, p, 0), "OPERATOR", <<"*">>)
    THEN Bind(call("parse_factor", toks, p + 1), LAMBDA operand :
           postfix(toks, Parsed(DerefExpr(operand.node), operand.pos)))
  ELSE IF Is(peek(toks, p, 0), "OPERATOR", <<"&">>)
    THEN Bind(call("parse_factor", toks, match_mut(toks, p + 1).pos), LAMBDA operand :
           postfix(toks, Parsed(RefExpr(match_mut(toks, p + 1).node, operand.node),
                                operand.pos)))
  ELSE IF peek(toks, p, 0).type = "LITERAL"
    THEN postfix(toks, Parsed(Literal(peek(toks, p, 0).value), p + 1))
  ELSE IF peek(toks, p, 0).type = "KEYWORD" THEN Failed("SyntaxError", p)
  ELSE IF peek(toks, p, 0).type = "IDENTIFIER"
    THEN IF Is(peek(toks, p, 1), "DELIMITER", <<"(">>)
           THEN Bind(call("parse_arg_list", toks, p + 2), LAMBDA args :
                Bind(consume(toks, args.pos, "DELIMITER", <<")">>), LAMBDA c :
                  postfix(toks, Parsed(CallExpression(peek(toks, p, 0).value, args.node),
                                       c.pos))))
           ELSE postfix(toks, Parsed(Identifier(peek(toks, p, 0).value), p + 1))
  ELSE Failed("SyntaxError", p)

\* The loop of parse_array_literal and parse_arg_list: another expression
\* after each ','.
more_expressions(toks, elements, p) ==
  IF match(toks, p, "SEPARATOR", <<",">>)
    THEN Bind(call("parse_expression", toks, p + 1), LAMBDA e :
           more_expressions(toks, Append(elements, e.node), e.pos))
    ELSE Parsed(elements, p)

parse_array_literal(toks, p) ==
  Bind(consume(toks, p, "DELIMITER", <<"[">>), LAMBDA c :
    IF Is(peek(toks, c.pos, 0), "DELIMITER", <<"]">>)
      THEN Parsed(ArrayLiteral(<<>>), c.pos + 1)
    ELSE IF peek(toks, c.pos, 0).type = "KEYWORD" THEN Failed("SyntaxError", c.pos)
    ELSE Bind(call("parse_expression", toks, c.pos), LAMBDA first :
         Bind(more_expressions(toks, <<first.node>>, first.pos), LAMBDA elements :
         Bind(consume(toks, elements.pos, "DELIMITER", <<"]">>), LAMBDA d :
           Parsed(ArrayLiteral(elements.node), d.pos)))))

parse_arg_list(toks, p) ==
  IF peek(toks, p, 0).type # "none" /\ ~ValueIs(peek(toks, p, 0), <<")">>)
    THEN Bind(call("parse_expression", toks, p), LAMBDA first :
           more_expressions(toks, <<first.node>>, first.pos))
    ELSE Parsed(<<>>, p)

(* ---------------------------- parse_statement -------------------------- *)
Kw(tok, words) == tok.type = "KEYWORD" /\ tok.value \in words

\* tgt = parse_expression(); consume '='; val = parse_expression(); consume ';'
assignment_to(toks, tgt) ==
  Bind(tgt, LAMBDA t :
  Bind(consume(toks, t.pos, "ASSIGN", <<"=">>), LAMBDA c :
  Bind(call("parse_expression", toks, c.pos), LAMBDA val :
  Bind(consume(toks, val.pos, "SEPARATOR", <<";">>), LAMBDA d :
    Parsed(Assignment(t.node, val.node), d.pos)))))

\* The optional expression of break and return, with the ';' after it.
optional_expression(toks, p) ==
  IF match(toks, p, "SEPARATOR", <<";">>) THEN Parsed(NoneE, p + 1)
  ELSE Bind(call("parse_expression", toks, p), LAMBDA e :
       Bind(consume(toks, e.pos, "SEPARATOR", <<";">>), LAMBDA c :
         Parsed(e.node, c.pos)))

parse_statement(toks, p) ==
  IF /\ peek(toks, p, 0).type = "IDENTIFIER"
     /\ is_dot(peek(toks, p, 1))
     /\ peek(toks, p, 2).type = "LITERAL"
     /\ peek(toks, p, 3).type = "ASSIGN"
    THEN assignment_to(toks, call("parse_expression", toks, p))
  ELSE IF match(toks, p, "KEYWORD", <<"b", "r", "e", "a", "k">>)
    THEN Bind(optional_expression(toks, p + 1), LAMBDA e :
           Parsed(BreakStmt(e.node), e.pos))
  ELSE IF match(toks, p, "KEYWORD", <<"c", "o", "n", "t", "i", "n", "u", "e">>)
    THEN Bind(consume(toks, p + 1, "SEPARATOR", <<";">>), LAMBDA c :
           Parsed(ContinueStmt, c.pos))
  ELSE IF match(toks, p, "KEYWORD", <<"r", "e", "t", "u", "r", "n">>)
    THEN Bind(optional_expression(toks, p + 1), LAMBDA e :
           Parsed(ReturnStmt(e.node), e.pos))
  ELSE IF match(toks, p, "KEYWORD", <<"l", "e", "t">>)
    THEN call("parse_variable_decl", toks, p + 1)
  ELSE IF match(toks, p, "KEYWORD", <<"i", "f">>) THEN call("parse_if", toks, p + 1)
  ELSE IF match(toks, p, "KEYWORD", <<"w", "h", "i", "l", "e">>)
    THEN call("parse_while", toks, p + 1)
  ELSE IF match(toks, p, "KEYWORD", <<"f", "o", "r">>) THEN call("parse_for", toks, p + 1)
  ELSE IF match(toks, p, "KEYWORD", <<"l", "o", "o", "p">>)
    THEN call("parse_loop_stmt", toks, p + 1)
  ELSE IF /\ peek(toks, p, 0).type = "IDENTIFIER"
          /\ Is(peek(toks, p, 1), "DELIMITER", <<"[">>)
    THEN assignment_to(toks, call("parse_expression", toks, p))
  ELSE IF /\ peek(toks, p, 0).type = "IDENTIFIER"
          /\ peek(toks, p, 1).type = "ASSIGN"
    THEN assignment_to(toks, Parsed(Identifier(peek(toks, p, 0).value), p + 1))
  ELSE IF /\ Is(peek(toks, p, 0), "OPERATOR", <<"*">>)
          /\ peek(toks, p, 2).type = "ASSIGN"
    THEN Bind(consume_any(toks, p + 1, "IDENTIFIER"), LAMBDA name :
           assignment_to(toks, Parsed(DerefExpr(Identifier(name.node)), name.pos)))
  ELSE IF match(toks, p, "SEPARATOR", <<";">>) THEN Parsed(EmptyStmt, p + 1)
  ELSE Bind(call("parse_expression", toks, p), LAMBDA expr :
       Bind(consume(toks, expr.pos, "SEPARATOR", <<";">>), LAMBDA c :
         Parsed(ExprStmt(expr.node), c.pos)))

\* The optional ': type' of a declaration, None when there is none.
optional_type(toks, p) ==
  IF match(toks, p, "SEPARATOR", <<":">>) THEN parse_type(toks, p + 1)
  ELSE Parsed(NoneT, p)

\* The optional '= expression' of a declaration.
optional_init(toks, p) ==
  IF match(toks, p, "ASSIGN", <<"=">>) THEN call("parse_expression", toks, p + 1)
  ELSE Parsed(NoneE, p)

parse_variable_decl(toks, p) ==
  Bind(consume_any(toks, match_mut(toks, p).pos, "IDENTIFIER"), LAMBDA name :
  Bind(optional_type(toks, name.pos), LAMBDA var_type :
  Bind(optional_init(toks, var_type.pos), LAMBDA init :
  Bind(consume(toks, init.pos, "SEPARATOR", <<";">>), LAMBDA c :
    Parsed(VarDecl(match_mut(toks, p).node, name.node, var_type.node, init.node),
           c.pos)))))

\* '{' and the block after it.
braced_block(toks, p) ==
  Bind(consume(toks, p, "DELIMITER", <<"{">>), LAMBDA c : call("parse_block", toks, c.pos))

\* The else part of an if statement with self.pos at p, None when there
\* is none.
else_part(toks, p) ==
  IF match(toks, p, "KEYWORD", <<"e", "l", "s", "e">>)
    THEN IF match(toks, p + 1, "KEYWORD", <<"i", "f">>)
           THEN call("parse_if", toks, p + 2)
           ELSE braced_block(toks, p + 1)
    ELSE Parsed(NoneE, p)

parse_if(toks, p) ==
  Bind(call("parse_expression", toks, p), LAMBDA cond :
  Bind(braced_block(toks, cond.pos), LAMBDA then :
  Bind(else_part(toks, then.pos), LAMBDA else :
    Parsed([type |-> "IfStmt", condition |-> cond.node, then |-> then.node,
            else |-> else.node], else.pos))))

parse_while(toks, p) ==
  Bind(call("parse_expression", toks, p), LAMBDA cond :
  Bind(braced_block(toks, cond.pos), LAMBDA body :
    Parsed([type |-> "WhileStmt", condition |-> cond.node, body |-> body.node],
           body.pos)))

parse_for(toks, p) ==
  Bind(consume_any(toks, match_mut(toks, p).pos, "IDENTIFIER"), LAMBDA var :
  Bind(optional_type(toks, var.pos), LAMBDA var_type :
  Bind(consume(toks, var_type.pos, "KEYWORD", <<"i", "n">>), LAMBDA c :
  Bind(call("parse_expression", toks, c.pos), LAMBDA start :
  Bind(consume(toks, start.pos, "DOUBLE_DOT", <<".", ".">>), LAMBDA d :
  Bind(call("parse_expression", toks, d.pos), LAMBDA end :
  Bind(braced_block(toks, end.pos), LAMBDA body :
    Parsed([type |-> "ForStmt", mut |-> match_mut(toks, p).node, var |-> var.node,
            var_type |-> var_type.node, start |-> start.node, end |-> end.node,
            body |-> body.node], body.pos))))))))

parse_loop_stmt(toks, p) ==
  Bind(braced_block(toks, p), LAMBDA body :
    Parsed([type |-> "LoopStmt", body |-> body.node], body.pos))

(* ------------------------------ parse_block ---------------------------- *)
block_loop(toks, stmts, p) ==
  IF match(toks, p, "DELIMITER", <<"}">>)
    THEN Parsed([type |-> "Block", statements |-> stmts], p + 1)
    ELSE Bind(call("parse_statement", toks, p), LAMBDA stmt :
           block_loop(toks, Append(stmts, stmt.node), stmt.pos))

parse_block(toks, p) == block_loop(toks, <<>>, p)

\* The loop of parse_function_expression_block with self.pos at p.
elements_loop(toks, elements, p) ==
  IF match(toks, p, "DELIMITER", <<"}">>)
    THEN Parsed(FunctionExprBlock(elements), p + 1)
  ELSE IF match(toks, p, "SEPARATOR", <<";">>)
    THEN elements_loop(toks, Append(elements, EmptyStmt), p + 1)
  ELSE IF \/ Kw(peek(toks, p, 0),
                { <<"l", "e", "t">>, <<"i", "f">>, <<"w", "h", "i", "l", "e">>,
                  <<"f", "o", "r">>, <<"l", "o", "o", "p">>,
                  <<"r", "e", "t", "u", "r", "n">>, <<"b", "r", "e", "a", "k">>,
                  <<"c", "o", "n", "t", "i", "n", "u", "e">> })
          \/ /\ peek(toks, p, 0).type = "IDENTIFIER"
             /\ Is(peek(toks, p, 1), "DELIMITER", <<"[">>)
    THEN Bind(call("parse_statement", toks, p), LAMBDA stmt :
           elements_loop(toks, Append(elements, stmt.node), stmt.pos))
  ELSE IF peek(toks, p, 0).type = "IDENTIFIER" /\ peek(toks, p, 1).type = "none"
    THEN Failed("AttributeError", p)        \* self.peek(1).type of None
  ELSE IF \/ /\ peek(toks, p, 0).type = "IDENTIFIER"
             /\ is_dot(peek(toks, p, 1))
             /\ peek(toks, p, 2).type = "LITERAL"
             /\ peek(toks, p, 3).type = "ASSIGN"
          \/ /\ peek(toks, p, 0).type = "IDENTIFIER"
             /\ peek(toks, p, 1).type = "ASSIGN"
          \/ /\ Is(peek(toks, p, 0), "OPERATOR", <<"*">>)
             /\ peek(toks, p, 2).type = "ASSIGN"
    THEN Bind(call("parse_statement", toks, p), LAMBDA stmt :
           elements_loop(toks, Append(elements, stmt.node), stmt.pos))
  ELSE IF Is(peek(toks, p, 0), "DELIMITER", <<"{">>)
    THEN Bind(call("parse_function_expression_block", toks, p), LAMBDA block :
           elements_loop(toks, Append(elements, block.node), block.pos))
  ELSE Bind(call("parse_expression", toks, p), LAMBDA expr :
         IF match(toks, expr.pos, "SEPARATOR", <<";">>)
           THEN elements_loop(toks, Append(elements, ExprStmt(expr.node)), expr.pos + 1)
           ELSE elements_loop(toks, Append(elements, expr.node), expr.pos))

parse_function_expression_block(toks, p) ==
  Bind(consume(toks, p, "DELIMITER", <<"{">>), LAMBDA c :
    elements_loop(toks, <<>>, c.pos))

(* ------------------------------- methods ------------------------------- *)
call(method, toks, p) ==
  CASE method = "parse_expression" -> parse_expression(toks, p)
    [] method = "parse_if_expression" -> parse_if_expression(toks, p)
    [] method = "parse_comparison" -> parse_comparison(toks, p)
    [] method = "parse_additive" -> parse_additive(toks, p)
    [] method = "parse_term" -> parse_term(toks, p)
    [] method = "parse_factor" -> parse_factor(toks, p)
    [] method = "parse_array_literal" -> parse_array_literal(toks, p)
    [] method = "parse_arg_list" -> parse_arg_list(toks, p)
    [] method = "parse_statement" -> parse_statement(toks, p)
    [] method = "parse_variable_decl" -> parse_variable_decl(toks, p)
    [] method = "parse_if" -> parse_if(toks, p)
    [] method = "parse_while" -> parse_while(toks, p)
    [] method = "parse_for" -> parse_for(toks, p)
    [] method = "parse_loop_stmt" -> parse_loop_stmt(toks, p)
    [] method = "parse_block" -> parse_block(toks, p)
    [] method = "parse_function_expression_block" ->
         parse_function_expression_block(toks, p)

(* --------------------------- parse_declaration ------------------------- *)
parse_parameter(toks, p) ==
  Bind(consume_any(toks, match_mut(toks, p).pos, "IDENTIFIER"), LAMBDA name :
  Bind(consume(toks, name.pos, "SEPARATOR", <<":">>), LAMBDA c :
  Bind(parse_type(toks, c.pos), LAMBDA ptype :
    Parsed(Param(match_mut(toks, p).node, name.node, ptype.node), ptype.pos))))

\* The loop of parse_parameter_list: another parameter after each ','.
RECURSIVE more_parameters(_, _, _)
more_parameters(toks, params, p) ==
  IF match(toks, p, "SEPARATOR", <<",">>)
    THEN Bind(parse_parameter(toks, p + 1), LAMBDA param :
           more_parameters(toks, Append(params, param.node), param.pos))
    ELSE Parsed(params, p)

parse_parameter_list(toks, p) ==
  IF peek(toks, p, 0).type # "none" /\ ~ValueIs(peek(toks, p, 0), <<")">>)
    THEN Bind(parse_parameter(toks, p), LAMBDA first :
           more_parameters(toks, <<first.node>>, first.pos))
    ELSE Parsed(<<>>, p)

\* The optional '-> type' of a declaration, None when there is none.
optional_return_type(toks, p) ==
  IF match(toks, p, "ARROW", <<"-", ">">>) THEN parse_type(toks, p + 1)
  ELSE Parsed(NoneT, p)

parse_declaration(toks, p) ==
  Bind(consume(toks, p, "KEYWORD", <<"f", "n">>), LAMBDA c :
  Bind(consume_any(toks, c.pos, "IDENTIFIER"), LAMBDA name :
  Bind(consume(toks, name.pos, "DELIMITER", <<"(">>), LAMBDA d :
  Bind(parse_parameter_list(toks, d.pos), LAMBDA params :
  Bind(consume(toks, params.pos, "DELIMITER", <<")">>), LAMBDA e :
  Bind(optional_return_type(toks, e.pos), LAMBDA return_type :
  Bind(call("parse_function_expression_block", toks, return_type.pos), LAMBDA body :
    Parsed([type |-> "FunctionDecl", name |-> name.node, params |-> params.node,
            return_type |-> return_type.node, body |-> body.node], body.pos))))))))

(* -------------------------------- parse -------------------------------- *)
MaxBody == 2        \* statements in the body of a parsed function

\* Statements that start with an identifier and go on with '=', after
\* nothing, an index or a '.INT' field: a = 0;  a[0] = 0;  a.0 = 0;
AssignTexts ==
  { <<"a", "=", "0", ";">>,
    <<"a", "[", "0", "]", "=", "0", ";">>,
    <<"a", ".", "0", "=", "0", ";">> }

\* Expression statements that start with an identifier, with one postfix
\* operator at most: a;  a[0];  a.0;  a.b;  a(0);  a+0;
ExprTexts ==
  { <<"a", ";">>,
    <<"a", "[", "0", "]", ";">>,
    <<"a", ".", "0", ";">>,
    <<"a", ".", "b", ";">>,
    <<"a", "(", "0", ")", ";">>,
    <<"a", "+", "0", ";">> }

\* Expressions with two postfix operators: a.0.1  a.0[1]  a[0].1  a[0][1]
PostfixTexts ==
  { <<"a", ".", "0", ".", "1">>,
    <<"a", ".", "0", "[", "1", "]">>,
    <<"a", "[", "0", "]", ".", "1">>,
    <<"a", "[", "0", "]", "[", "1", "]">> }

\* let b = e;
LetText(e) == <<"l", "e", "t", " ", "b", "=">> \o e \o <<";">>

\* if a { s }
IfText(s) == <<"i", "f", " ", "a", "{">> \o s \o <<"}">>

\* Other elements of a body:  ;  *a=0;  let b:i32=a;  {a;}  loop{break;}
\* a comment, a final expression, a character of no token.
OtherTexts ==
  { <<";">>,
    <<"*", "a", "=", "0", ";">>,
    <<"l", "e", "t", " ", "b", ":", "i", "3", "2", "=", "a", ";">>,
    <<"{", "a", ";", "}">>,
    <<"l", "o", "o", "p", "{", "b", "r", "e", "a", "k", ";", "}">>,
    <<"/", "/", "a", "\n">>,
    <<"a">>,
    <<"@">> }

Texts ==
  AssignTexts \cup ExprTexts \cup {LetText(e) : e \in PostfixTexts}
    \cup {IfText(s) : s \in AssignTexts \cup ExprTexts} \cup OtherTexts

RECURSIVE Flatten(_)
Flatten(texts) ==
  IF texts = <<>> THEN <<>> ELSE Head(texts) \o Flatten(Tail(texts))

\* fn f(){ body }
Function(body) == <<"f", "n", " ", "f", "(", ")", "{">> \o Flatten(body) \o <<"}">>

Bodies(texts) == UNION {[1..n -> texts] : n \in 0..MaxBody}

\* The programs parsed: one function with a body of the texts above, no
\* function, two functions, a function with parameters and a return type:
\* fn f(mut a:[i32;2],b:&i32)->(i32,i32){(a[0],*b)}
ParseSources ==
  {Function(body) : body \in Bodies(Texts)}
    \cup { <<>>,
           Function(<<>>) \o <<"\n">> \o Function(<<>>),
           <<"f", "n", " ", "f", "(", "m", "u", "t", " ", "a", ":", "[", "i", "3", "2",
             ";", "2", "]", ",", "b", ":", "&", "i", "3", "2", ")", "-", ">",
             "(", "i", "3", "2", ",", "i", "3", "2", ")", "{",
             "(", "a", "[", "0", "]", ",", "*", "b", ")", "}">> }

ParseInit ==
  /\ source \in ParseSources
  /\ lex_pos = 0
  /\ tokens = <<>>
  /\ lex_pc = "scan"
  /\ parse_pos = 0
  /\ decls = <<>>
  /\ parse_pc = "parse"
  /\ parse_err = "none"
  /\ ast = <<>>
  /\ SemConstructed
  /\ GenConstructed
  /\ run = 0
  /\ log = <<>>
  /\ pos = 0
  /\ first_err = "none"
  /\ reuse = FALSE

\* self.is_at_end()
is_at_end == peek(tokens, parse_pos, 0).type = "none"

\* decls.append(self.parse_declaration())
ParseDeclaration ==
  /\ lex_pc = "done"
  /\ parse_pc = "parse"
  /\ ~is_at_end
  /\ parse_declaration(tokens, parse_pos).err = "none"
  /\ decls' = Append(decls, parse_declaration(tokens, parse_pos).node)
  /\ parse_pos' = parse_declaration(tokens, parse_pos).pos
  /\ UNCHANGED <<parse_pc, parse_err, lex_vars, sem_vars, gen_vars>>

\* parse_declaration raises.
ParseError ==
  /\ lex_pc = "done"
  /\ parse_pc = "parse"
  /\ ~is_at_end
  /\ parse_declaration(tokens, parse_pos).err # "none"
  /\ parse_pos' = parse_declaration(tokens, parse_pos).pos
  /\ parse_pc' = "failed"
  /\ parse_err' = parse_declaration(tokens, parse_pos).err
  /\ UNCHANGED <<decls, lex_vars, sem_vars, gen_vars>>

\* return {'type': 'Program', 'declarations': decls}
ParseEnd ==
  /\ lex_pc = "done"
  /\ parse_pc = "parse"
  /\ is_at_end
  /\ parse_pc' = "done"
  /\ UNCHANGED <<parse_pos, decls, parse_err, lex_vars, sem_vars, gen_vars>>

ParseNext ==
  \/ LexToken \/ LexComment \/ LexEof \/ LexError
  \/ ParseDeclaration \/ ParseError \/ ParseEnd

ParseSpec == ParseInit /\ [][ParseNext]_vars

(* ======================= properties: the parser ======================= *)
\* The elements of the body of the one function parsed.
Elements == decls[1].body.elements

\* C23: in a function body and in the block of an if statement, a statement
\* that starts with an identifier is parsed as an Assignment when '='
\* follows the identifier, or the index or '.INT' field after it, and as
\* an ExprStmt otherwise, 'a[0];' included.
C23_IdentifierStatement ==
  /\ \A body \in Bodies(AssignTexts \cup ExprTexts) :
       source = Function(body) /\ lex_pc = "done" =>
         /\ parse_pc # "failed"
         /\ parse_pc = "done" =>
              \A i \in DOMAIN body :
                Elements[i].type =
                  IF body[i] \in AssignTexts THEN "Assignment" ELSE "ExprStmt"
  /\ \A s \in AssignTexts \cup ExprTexts :
       source = Function(<<IfText(s)>>) /\ lex_pc = "done" =>
         /\ parse_pc # "failed"
         /\ parse_pc = "done" =>
              Elements[1].then.statements[1].type =
                IF s \in AssignTexts THEN "Assignment" ELSE "ExprStmt"

\* The node of a.p.q for the postfix operators p and q, the left one
\* innermost.
A == Identifier(<<"a">>)
Nested(text) ==
  CASE text = <<"a", ".", "0", ".", "1">> ->
         TupleAccess(TupleAccess(A, IntIndex(0)), IntIndex(1))
    [] text = <<"a", ".", "0", "[", "1", "]">> ->
         IndexExpr(TupleAccess(A, IntIndex(0)), Literal(1))
    [] text = <<"a", "[", "0", "]", ".", "1">> ->
         TupleAccess(IndexExpr(A, Literal(0)), IntIndex(1))
    [] text = <<"a", "[", "0", "]", "[", "1", "]">> ->
         IndexExpr(IndexExpr(A, Literal(0)), Literal(1))

\* C24: a.0.1, a.0[1] and a[0].1 (and a[0][1]) as the initializer of a let
\* each parse into one nested IndexExpr/TupleAccess expression, the
\* leftmost postfix operator innermost.
C24_PostfixChain ==
  \A e \in PostfixTexts :
    source = Function(<<LetText(e)>>) /\ lex_pc = "done" =>
      /\ parse_pc # "failed"
      /\ parse_pc = "done" => Elements[1].init = Nested(e)

====
